---- MODULE Spec2Model ----
(***************************************************************************)
(* FigJam MCP: the layout validation and spatial-arrangement engine of the *)
(* Figma plugin (figma-plugin/code.ts).                                    *)
(*                                                                         *)
(* The scene graph is the function `nodes` from element ids to node        *)
(* records.  Coordinates are JavaScript numbers; they are modelled as      *)
(* exact rationals <<numerator, denominator>> in lowest terms, so that the *)
(* divisions of the code (centers, means, natural gaps, 0.55 * fontSize)   *)
(* are computed, not truncated.  Floating-point rounding is not modelled.  *)
(*                                                                         *)
(* The bridge between the MCP server and the plugin (BridgeServer) is the  *)
(* second part: its sockets, its pending commands with their timers, and   *)
(* waitForConnection.  Time passes in Ticks; a timer holds the time left.  *)
(***************************************************************************)
EXTENDS Integers, Sequences, FiniteSets, TLC

VARIABLES nodes, last, history

vars == <<nodes, last, history>>

\* The bridge (BridgeServer): pluginSocket and pendingCommands are its fields;
\* readyState is the readyState of each WebSocket, commands the sendCommand
\* calls made so far with their promises and timers, sent what was written to
\* the sockets, waits the waitForConnection calls, stopped whether stop() ran.
VARIABLES pluginSocket, readyState, pendingCommands, commands, sent, waits, stopped

bridgeVars == <<pluginSocket, readyState, pendingCommands, commands, sent, waits, stopped>>

\* one batch_create call of the MCP server: its loop and what it returned
VARIABLE batch

\* ------------------------------------------------------------------------
\* JavaScript number arithmetic, on exact rationals
\* ------------------------------------------------------------------------

Abs(a) == IF a < 0 THEN -a ELSE a

RECURSIVE Gcd(_, _)
Gcd(a, b) == IF b = 0 THEN a ELSE Gcd(b, a % b)

Norm(n, d) ==
    LET g == Gcd(Abs(n), Abs(d))
        s == IF d < 0 THEN -1 ELSE 1
    IN  <<(s * n) \div g, (s * d) \div g>>

Q(n) == <<n, 1>>

Frac(n, d) == Norm(n, d)

Add(a, b) == Norm(a[1] * b[2] + b[1] * a[2], a[2] * b[2])

Sub(a, b) == Norm(a[1] * b[2] - b[1] * a[2], a[2] * b[2])

Mul(a, b) == Norm(a[1] * b[1], a[2] * b[2])

\* a / b for b # 0 (every division of the modelled code has a non-zero divisor,
\* or is guarded by p[k] === 0)
Div(a, b) == Norm(a[1] * b[2], a[2] * b[1])

Lt(a, b) == a[1] * b[2] < b[1] * a[2]

Le(a, b) == a[1] * b[2] <= b[1] * a[2]

Gt(a, b) == Lt(b, a)

Ge(a, b) == Le(b, a)

MathMax(a, b) == IF Lt(a, b) THEN b ELSE a

MathMin(a, b) == IF Lt(b, a) THEN b ELSE a

\* Math.floor, Math.ceil: to an integer (\div rounds towards minus infinity)
MathFloor(a) == a[1] \div a[2]

MathCeil(a) == -((-a[1]) \div a[2])

\* Math.round: the nearest integer, halves towards plus infinity
MathRound(a) == MathFloor(Add(a, Frac(1, 2)))

\* an array with its elements computed once
Array(f) == f \o <<>>

\* the array a loop pushes to, given what each round pushes
RECURSIVE Flatten(_)
Flatten(ss) == IF Len(ss) = 0 THEN <<>> ELSE Head(ss) \o Flatten(Tail(ss))

\* ------------------------------------------------------------------------
\* Scene graph
\* ------------------------------------------------------------------------

\* parent id of a page-level node
Page == 0

NoNode ==
    [type |-> "NONE", parent |-> Page, x |-> Q(0), y |-> Q(0),
     width |-> Q(0), height |-> Q(0), characters |-> 0, fontSize |-> Q(0),
     connectorStart |-> 0, connectorEnd |-> 0]

Exists(ns, id) == id \in DOMAIN ns /\ ns[id].type # "NONE"

\* findNodeById: the id when it resolves, 0 (null) otherwise
findNodeById(ns, id) == IF Exists(ns, id) THEN id ELSE 0

\* node.children, in order
RECURSIVE ChildrenFrom(_, _, _)
ChildrenFrom(ns, p, i) ==
    IF i > Len(ns) THEN <<>>
    ELSE (IF ns[i].type # "NONE" /\ ns[i].parent = p THEN <<i>> ELSE <<>>)
         \o ChildrenFrom(ns, p, i + 1)

Children(ns, p) == ChildrenFrom(ns, p, 1)

\* figma.currentPage.findAll(): every node below the page, in document order
RECURSIVE FindAllIn(_, _, _)
FindAllIn(ns, kids, depth) ==
    IF kids = <<>> \/ depth = 0 THEN <<>>
    ELSE <<Head(kids)>>
         \o FindAllIn(ns, Children(ns, Head(kids)), depth - 1)
         \o FindAllIn(ns, Tail(kids), depth)

FindAll(ns) == FindAllIn(ns, Children(ns, Page), Len(ns))

\* node.remove(): the node and everything below it leave the document
RECURSIVE Below(_, _, _)
Below(ns, id, depth) ==
    IF depth = 0 THEN {id}
    ELSE {id} \cup UNION {Below(ns, c, depth - 1) :
                          c \in {k \in DOMAIN ns : Exists(ns, k) /\ ns[k].parent = id}}

Remove(ns, id) ==
    LET gone == Below(ns, id, Len(ns))
    IN  Array([k \in 1..Len(ns) |-> IF k \in gone THEN NoNode ELSE ns[k]])

Right(n) == Add(n.x, n.width)

Bottom(n) == Add(n.y, n.height)

\* ------------------------------------------------------------------------
\* Section Auto-Fit (resizeParentSections)
\* ------------------------------------------------------------------------

SECTION_PADDING == 40

ZeroShift == <<Q(0), Q(0)>>

NoShifts(ns) == Array([k \in 1..Len(ns) |-> ZeroShift])

RECURSIVE MinSeq(_)
MinSeq(s) == IF Len(s) = 1 THEN s[1] ELSE MathMin(s[1], MinSeq(Tail(s)))

RECURSIVE MaxSeq(_)
MaxSeq(s) == IF Len(s) = 1 THEN s[1] ELSE MathMax(s[1], MaxSeq(Tail(s)))

RECURSIVE SumSeq(_)
SumSeq(s) == IF s = <<>> THEN Q(0) ELSE Add(s[1], SumSeq(Tail(s)))

Range(s) == {s[i] : i \in DOMAIN s}

\* resizeWithoutConstraints(newW, newH): the size the children need, taken as is
FitSizeNeeded(needed, current) == needed

\* sec.resizeWithoutConstraints(Math.max(newW, sec.width), ...): one axis
FitSize(needed, current) == MathMax(needed, current)

\* the deficit of the smallest child coordinate against the padding
ShiftFor(minC) ==
    IF Lt(minC, Q(SECTION_PADDING)) THEN Sub(Q(SECTION_PADDING), minC) ELSE Q(0)

\* One section of resizeParentSections: shift the children behind the padding,
\* then grow the section.  [nodes, resized, shift]
FitSection(ns, sec) ==
    LET kids   == Children(ns, sec)
        minX   == MinSeq(Array([j \in 1..Len(kids) |-> ns[kids[j]].x]))
        minY   == MinSeq(Array([j \in 1..Len(kids) |-> ns[kids[j]].y]))
        maxX   == MaxSeq(Array([j \in 1..Len(kids) |-> Right(ns[kids[j]])]))
        maxY   == MaxSeq(Array([j \in 1..Len(kids) |-> Bottom(ns[kids[j]])]))
        shiftX == ShiftFor(minX)
        shiftY == ShiftFor(minY)
        moved  == Gt(shiftX, Q(0)) \/ Gt(shiftY, Q(0))
        ns1    == IF moved
                  THEN Array([k \in 1..Len(ns) |->
                          IF k \in Range(kids)
                          THEN [ns[k] EXCEPT !.x = Add(@, shiftX), !.y = Add(@, shiftY)]
                          ELSE ns[k]])
                  ELSE ns
        newW   == Add(IF moved THEN Add(maxX, shiftX) ELSE maxX, Q(SECTION_PADDING))
        newH   == Add(IF moved THEN Add(maxY, shiftY) ELSE maxY, Q(SECTION_PADDING))
        grow   == Gt(newW, ns[sec].width) \/ Gt(newH, ns[sec].height)
        ns2    == IF grow
                  THEN [ns1 EXCEPT ![sec].width  = FitSize(newW, ns[sec].width),
                                   ![sec].height = FitSize(newH, ns[sec].height)]
                  ELSE ns1
    IN  IF kids = <<>>
        THEN [nodes |-> ns, resized |-> FALSE, shift |-> ZeroShift]
        ELSE [nodes |-> ns2, resized |-> grow, shift |-> <<shiftX, shiftY>>]

\* resizeParentSections(nodes): the loop over the moved nodes, from index i, with
\* the sections visited so far.  [nodes, resized, shifts]
RECURSIVE ResizeFrom(_, _, _, _, _, _)
ResizeFrom(ns, nl, i, visited, resized, shifts) ==
    IF i > Len(nl) THEN [nodes |-> ns, resized |-> resized, shifts |-> shifts]
    ELSE LET parent == ns[nl[i]].parent
         IN  IF parent = Page \/ ns[parent].type # "SECTION" \/ parent \in visited
             THEN ResizeFrom(ns, nl, i + 1, visited, resized, shifts)
             ELSE LET fit == FitSection(ns, parent)
                  IN  ResizeFrom(fit.nodes, nl, i + 1, visited \cup {parent},
                                 IF fit.resized THEN Append(resized, parent) ELSE resized,
                                 [shifts EXCEPT ![parent] = fit.shift])

resizeParentSections(ns, nl) ==
    ResizeFrom(ns, nl, 1, {}, <<>>, NoShifts(ns))

\* ------------------------------------------------------------------------
\* Alignment Engine (handleAlignElements)
\* ------------------------------------------------------------------------

Alignments == {"left", "center", "right", "top", "middle", "bottom"}

\* the ids that findNodeById resolves, in the order given
\* the listed ids up to the first one that does not resolve
RECURSIVE ResolveUntilMissing(_, _)
ResolveUntilMissing(ns, elementIds) ==
    IF elementIds = <<>> \/ ~Exists(ns, Head(elementIds)) THEN <<>>
    ELSE <<Head(elementIds)>> \o ResolveUntilMissing(ns, Tail(elementIds))

Resolve(ns, elementIds) == SelectSeq(elementIds, LAMBDA id : Exists(ns, id))

CenterX(n) == Add(n.x, Div(n.width, Q(2)))

CenterY(n) == Add(n.y, Div(n.height, Q(2)))

\* every node put where the first of the list is
AlignNodeToFirst(ns, nl, alignment, k) ==
    IF alignment \in {"left", "center", "right"}
    THEN [ns[k] EXCEPT !.x = ns[nl[1]].x]
    ELSE [ns[k] EXCEPT !.y = ns[nl[1]].y]

\* the switch of handleAlignElements: the node k of the list nl, moved
AlignNode(ns, nl, alignment, k) ==
    LET n == ns[k]
        xs       == Array([i \in 1..Len(nl) |-> ns[nl[i]].x])
        ys       == Array([i \in 1..Len(nl) |-> ns[nl[i]].y])
        rights   == Array([i \in 1..Len(nl) |-> Right(ns[nl[i]])])
        bottoms  == Array([i \in 1..Len(nl) |-> Bottom(ns[nl[i]])])
        centersX == Array([i \in 1..Len(nl) |-> CenterX(ns[nl[i]])])
        centersY == Array([i \in 1..Len(nl) |-> CenterY(ns[nl[i]])])
    IN  CASE alignment = "left"   -> [n EXCEPT !.x = MinSeq(xs)]
          [] alignment = "right"  -> [n EXCEPT !.x = Sub(MaxSeq(rights), n.width)]
          [] alignment = "center" ->
                [n EXCEPT !.x = Sub(Div(SumSeq(centersX), Q(Len(nl))),
                                    Div(n.width, Q(2)))]
          [] alignment = "top"    -> [n EXCEPT !.y = MinSeq(ys)]
          [] alignment = "bottom" -> [n EXCEPT !.y = Sub(MaxSeq(bottoms), n.height)]
          [] alignment = "middle" ->
                [n EXCEPT !.y = Sub(Div(SumSeq(centersY), Q(Len(nl))),
                                    Div(n.height, Q(2)))]
          [] OTHER -> n

\* The value a handler returns.  The early return of a sub-minimum call is
\* { aligned|distributed: true, count }: no spacing, no resizedSections (short).
\* spacing is <<>> when the key is absent, <<gap>> otherwise.
ShortData(count) ==
    [count |-> count, short |-> TRUE, spacing |-> <<>>, resizedSections |-> <<>>]

FullData(count, spacing, resized) ==
    [count |-> count, short |-> FALSE, spacing |-> spacing, resizedSections |-> resized]

\* nodes.length < 2: nothing to align
TooFewToAlign(nl) == Len(nl) < 2

\* the assignment loop of the switch, after its first done rounds
AlignedUpTo(ns, nl, alignment, done) ==
    Array([k \in 1..Len(ns) |->
        IF k \in Range(SubSeq(nl, 1, done))
        THEN AlignNode(ns, nl, alignment, k) ELSE ns[k]])

\* [nodes, data, shifts, order]
handleAlignElements(ns, elementIds, alignment) ==
    LET nl  == Resolve(ns, elementIds)
        ns1 == AlignedUpTo(ns, nl, alignment, Len(nl))
        fit == resizeParentSections(ns1, nl)
    IN  IF TooFewToAlign(nl)
        THEN [nodes |-> ns, data |-> ShortData(Len(nl)),
              shifts |-> NoShifts(ns), order |-> nl]
        ELSE [nodes |-> fit.nodes, data |-> FullData(Len(nl), <<>>, fit.resized),
              shifts |-> fit.shifts, order |-> nl]

\* The handler when the canvas throws at a write: at the assignment to element
\* done + 1 of the loop, or, with every element assigned, at the first write
\* of resizeParentSections.  The handler catches nothing and undoes nothing:
\* the document keeps the writes made so far and onmessage answers with the
\* failure.
handleAlignElementsThrowing(ns, elementIds, alignment, done) ==
    LET nl == Resolve(ns, elementIds)
    IN  [nodes |-> AlignedUpTo(ns, nl, alignment, done), data |-> ShortData(0),
         shifts |-> NoShifts(ns), order |-> nl]

\* the writes at which a call on these ids can throw, as the number of elements
\* assigned before: none below the minimum, where nothing is written, and the
\* last only when resizeParentSections has something to write
ThrowPoints(ns, nl, moved, tooFew) ==
    IF tooFew THEN {}
    ELSE {done \in 0..Len(nl) :
            done = Len(nl) => resizeParentSections(moved, nl).nodes # moved}

\* ------------------------------------------------------------------------
\* Distribution Engine (handleDistributeElements)
\* ------------------------------------------------------------------------

DEFAULT_SPACING == 60

Directions == {"horizontal", "vertical"}

Lead(n, direction) == IF direction = "horizontal" THEN n.x ELSE n.y

Size(n, direction) == IF direction = "horizontal" THEN n.width ELSE n.height

\* nodes.sort(function(a, b) { return a.x - b.x; }): stable, ascending
RECURSIVE InsertSorted(_, _, _, _)
InsertSorted(ns, sorted, id, direction) ==
    IF sorted = <<>> THEN <<id>>
    ELSE IF Lt(Lead(ns[id], direction), Lead(ns[Head(sorted)], direction))
         THEN <<id>> \o sorted
         ELSE <<Head(sorted)>> \o InsertSorted(ns, Tail(sorted), id, direction)

RECURSIVE SortFrom(_, _, _, _, _)
SortFrom(ns, nl, i, sorted, direction) ==
    IF i > Len(nl) THEN sorted
    ELSE SortFrom(ns, nl, i + 1, InsertSorted(ns, sorted, nl[i], direction), direction)

SortNodes(ns, nl, direction) == SortFrom(ns, nl, 1, <<>>, direction)

\* params.spacing != null ? params.spacing : 60
MinSpacing(spacing) == IF spacing = <<>> THEN Q(DEFAULT_SPACING) ELSE spacing[1]

\* the free space divided by the number of elements, not of gaps
NaturalGapPerElement(ns, sorted, direction) ==
    LET first == ns[sorted[1]]
        lastN == ns[sorted[Len(sorted)]]
        total == SumSeq(Array([i \in 1..Len(sorted) |-> Size(ns[sorted[i]], direction)]))
        lastEdge == Add(Lead(lastN, direction), Size(lastN, direction))
    IN  Div(Sub(Sub(lastEdge, Lead(first, direction)), total), Q(Len(sorted)))

\* ((lastRight - firstLeft) - totalElementWidth) / (nodes.length - 1)
NaturalGap(ns, sorted, direction) ==
    LET first == ns[sorted[1]]
        lastN == ns[sorted[Len(sorted)]]
        total == SumSeq(Array([i \in 1..Len(sorted) |-> Size(ns[sorted[i]], direction)]))
        lastEdge == Add(Lead(lastN, direction), Size(lastN, direction))
    IN  Div(Sub(Sub(lastEdge, Lead(first, direction)), total), Q(Len(sorted) - 1))

\* the natural gap applied whatever the spacing asked for
AppliedGapNatural(naturalGap, minSpacing) == naturalGap

\* Math.max(naturalGap, minSpacing)
AppliedGap(naturalGap, minSpacing) == MathMax(naturalGap, minSpacing)

\* the placement loop: nodes[i].x = currentX; currentX += nodes[i].width + gap
RECURSIVE PlaceFrom(_, _, _, _, _, _)
PlaceFrom(ns, sorted, i, current, gap, direction) ==
    IF i > Len(sorted) THEN ns
    ELSE LET k   == sorted[i]
             ns1 == IF direction = "horizontal"
                    THEN [ns EXCEPT ![k].x = current]
                    ELSE [ns EXCEPT ![k].y = current]
         IN  PlaceFrom(ns1, sorted, i + 1,
                       Add(current, Add(Size(ns[k], direction), gap)), gap, direction)

\* two elements are enough to set a gap between
TooFewForAGap(nl) == Len(nl) < 2

\* nodes.length < 3: nothing to distribute
TooFewToDistribute(nl) == Len(nl) < 3

\* [nodes, data, shifts, order]
handleDistributeElements(ns, elementIds, direction, spacing) ==
    LET nl     == Resolve(ns, elementIds)
        sorted == SortNodes(ns, nl, direction)
        gap    == AppliedGap(NaturalGap(ns, sorted, direction), MinSpacing(spacing))
        ns1    == PlaceFrom(ns, sorted, 1, Lead(ns[sorted[1]], direction), gap, direction)
        fit    == resizeParentSections(ns1, sorted)
    IN  IF TooFewToDistribute(nl)
        THEN [nodes |-> ns, data |-> ShortData(Len(nl)),
              shifts |-> NoShifts(ns), order |-> nl]
        ELSE [nodes |-> fit.nodes, data |-> FullData(Len(nl), <<gap>>, fit.resized),
              shifts |-> fit.shifts, order |-> sorted]

\* the handler when the canvas throws at the assignment to element done + 1 of
\* the sorted list, or at the first write of resizeParentSections
handleDistributeElementsThrowing(ns, elementIds, direction, spacing, done) ==
    LET nl     == Resolve(ns, elementIds)
        sorted == SortNodes(ns, nl, direction)
        gap    == AppliedGap(NaturalGap(ns, sorted, direction), MinSpacing(spacing))
    IN  [nodes |-> PlaceFrom(ns, SubSeq(sorted, 1, done), 1,
                             Lead(ns[sorted[1]], direction), gap, direction),
         data |-> ShortData(0), shifts |-> NoShifts(ns), order |-> sorted]

\* ------------------------------------------------------------------------
\* Layout validation (handleValidateLayout)
\* ------------------------------------------------------------------------

\* One entry of the issue list.  ref is the second element the texts name, v1 and
\* v2 the numbers they print, dir the direction or the bleed pass, bleeds the
\* edges of a section_bleed with their printed overflow.
Issue(type, elementId, ref, v1, v2, dir, bleeds) ==
    [type |-> type, elementId |-> elementId, ref |-> ref, v1 |-> v1, v2 |-> v2,
     dir |-> dir, bleeds |-> bleeds]

\* --- text truncation ---

FALLBACK_FONT_SIZE == 14

TEXT_PADDING == 40

\* (shape.text.fontSize as number) || 14
FontSize(n) == IF n.fontSize = Q(0) THEN Q(FALLBACK_FONT_SIZE) ELSE n.fontSize

CharWidth(n) == Mul(FontSize(n), Frac(55, 100))

CharsPerLine(n) ==
    LET f == MathFloor(Div(Sub(n.width, Q(TEXT_PADDING)), CharWidth(n)))
    IN  IF f < 1 THEN 1 ELSE f

LinesNeeded(n) == MathCeil(Frac(n.characters, CharsPerLine(n)))

TextHeight(n) == Mul(Q(LinesNeeded(n)), Mul(FontSize(n), Frac(14, 10)))

\* textHeight > availableHeight, for a shape that carries text
Truncated(n) ==
    /\ n.type = "SHAPE_WITH_TEXT"
    /\ n.characters > 0
    /\ Gt(TextHeight(n), Sub(n.height, Q(TEXT_PADDING)))

\* the height of the text alone, without the padding around it
SuggestedHeightOfText(n) == Q(MathCeil(TextHeight(n)))

SuggestedHeight(n) == Q(MathCeil(Add(TextHeight(n), Q(TEXT_PADDING + 20))))

\* the width that two lines of the text need, whatever the shape's width
SuggestedWidthOfText(n) ==
    IF n.characters > CharsPerLine(n) * 2
    THEN Q(MathCeil(Add(Div(Mul(Q(n.characters), CharWidth(n)), Q(2)),
                        Q(TEXT_PADDING))))
    ELSE n.width

SuggestedWidth(n) ==
    IF n.characters > CharsPerLine(n) * 2
    THEN MathMax(n.width,
                 Q(MathCeil(Add(Div(Mul(Q(n.characters), CharWidth(n)), Q(2)),
                                Q(TEXT_PADDING)))))
    ELSE n.width

TruncationIssues(ns) ==
    LET kids == Children(ns, Page)
    IN  Flatten([i \in 1..Len(kids) |->
            IF Truncated(ns[kids[i]])
            THEN <<Issue("text_truncated", kids[i], 0, SuggestedWidth(ns[kids[i]]),
                         SuggestedHeight(ns[kids[i]]), "", <<>>)>>
            ELSE <<>>])

\* --- overlap ---

\* a boxes array that holds the children of the page's children too
BoxesWithChildren(ns) ==
    LET kids == Children(ns, Page)
    IN  SelectSeq(kids \o Flatten([i \in 1..Len(kids) |-> Children(ns, kids[i])]),
                  LAMBDA k : ns[k].type # "CONNECTOR")

\* a boxes array filled from every node below the page
BoxesOfAll(ns) == SelectSeq(FindAll(ns), LAMBDA k : ns[k].type # "CONNECTOR")

\* the boxes array: the page's own children, connectors left out
Boxes(ns) == SelectSeq(Children(ns, Page), LAMBDA k : ns[k].type # "CONNECTOR")

OverlapX(A, B) == Lt(A.x, Right(B)) /\ Gt(Right(A), B.x)

OverlapY(A, B) == Lt(A.y, Bottom(B)) /\ Gt(Bottom(A), B.y)

OverlapArea(A, B) ==
    Mul(Sub(MathMin(Right(A), Right(B)), MathMax(A.x, B.x)),
        Sub(MathMin(Bottom(A), Bottom(B)), MathMax(A.y, B.y)))

\* the area of the first box, whichever is smaller
SmallerAreaFirst(A, B) == Mul(A.width, A.height)

SmallerArea(A, B) == MathMin(Mul(A.width, A.height), Mul(B.width, B.height))

\* the threshold itself counted as over it
OverThresholdInclusive(overlapArea, smallerArea) ==
    Ge(overlapArea, Mul(smallerArea, Frac(1, 10)))

\* overlapArea > smallerArea * 0.1
OverThreshold(overlapArea, smallerArea) == Gt(overlapArea, Mul(smallerArea, Frac(1, 10)))

\* the body of the pair loop: is an overlap issue pushed for boxes A, B
OverlapReported(A, B) ==
    /\ A.type # "SECTION"
    /\ B.type # "SECTION"
    /\ OverlapX(A, B)
    /\ OverlapY(A, B)
    /\ OverThreshold(OverlapArea(A, B), SmallerArea(A, B))

OverlapIssues(ns, boxes) ==
    Flatten([a \in 1..Len(boxes) |->
        Flatten([b \in 1..Len(boxes) |->
            IF b > a /\ OverlapReported(ns[boxes[a]], ns[boxes[b]])
            THEN <<Issue("overlap", boxes[a], boxes[b],
                         Q(MathRound(OverlapArea(ns[boxes[a]], ns[boxes[b]]))),
                         Q(0), "", <<>>)>>
            ELSE <<>>])])

\* --- tight connectors ---

MIN_CONNECTOR_GAP == 80

Connectors(ns) == SelectSeq(FindAll(ns), LAMBDA k : ns[k].type = "CONNECTOR")

\* 'endpointNodeId' in both ends, the ids not looked up
EndpointsNamed(ns, c) ==
    /\ ns[c].connectorStart # 0
    /\ ns[c].connectorEnd # 0

\* 'endpointNodeId' in both ends, and both ids resolve
EndpointsResolve(ns, c) ==
    /\ ns[c].connectorStart # 0
    /\ ns[c].connectorEnd # 0
    /\ findNodeById(ns, ns[c].connectorStart) # 0
    /\ findNodeById(ns, ns[c].connectorEnd) # 0

\* the -1 sentinel: the two nodes overlap on the axis
GapH(S, E) ==
    IF Le(Right(S), E.x) THEN Sub(E.x, Right(S))
    ELSE IF Le(Right(E), S.x) THEN Sub(S.x, Right(E))
    ELSE Q(-1)

GapV(S, E) ==
    IF Le(Bottom(S), E.y) THEN Sub(E.y, Bottom(S))
    ELSE IF Le(Bottom(E), S.y) THEN Sub(S.y, Bottom(E))
    ELSE Q(-1)

EffectiveGap(gapH, gapV) ==
    IF Ge(gapH, Q(0)) /\ Ge(gapV, Q(0)) THEN MathMin(gapH, gapV)
    ELSE IF Ge(gapH, Q(0)) THEN gapH
    ELSE IF Ge(gapV, Q(0)) THEN gapV
    ELSE Q(-1)

\* a gap of exactly MIN_CONNECTOR_GAP counted as tight
IsTightInclusive(effectiveGap) ==
    Ge(effectiveGap, Q(0)) /\ Le(effectiveGap, Q(MIN_CONNECTOR_GAP))

IsTight(effectiveGap) ==
    Ge(effectiveGap, Q(0)) /\ Lt(effectiveGap, Q(MIN_CONNECTOR_GAP))

MoveDir(gapH, gapV) ==
    IF Ge(gapH, Q(0)) /\ (Lt(gapV, Q(0)) \/ Le(gapH, gapV))
    THEN "horizontally" ELSE "vertically"

\* the number printed in 'Move <id> at least <n>px'
PrintedMove(effectiveGap) == MathRound(Sub(Q(MIN_CONNECTOR_GAP), effectiveGap))

TightIssues(ns) ==
    LET cs == Connectors(ns)
    IN  Flatten([i \in 1..Len(cs) |->
            IF EndpointsResolve(ns, cs[i])
            THEN LET S  == ns[ns[cs[i]].connectorStart]
                     E  == ns[ns[cs[i]].connectorEnd]
                     gh == GapH(S, E)
                     gv == GapV(S, E)
                     eg == EffectiveGap(gh, gv)
                 IN  IF IsTight(eg)
                     THEN <<Issue("tight_connector", cs[i], ns[cs[i]].connectorEnd,
                                  Q(MathRound(eg)), Q(PrintedMove(eg)),
                                  MoveDir(gh, gv), <<>>)>>
                     ELSE <<>>
            ELSE <<>>])

\* --- connectors through shapes ---

\* the Liang-Barsky loop over the four edges, from edge k
RECURSIVE Clip(_, _, _, _, _)
Clip(p, q, k, u1, u2) ==
    IF k > 4 THEN Le(u1, u2)
    ELSE IF p[k] = Q(0)
         THEN (IF Lt(q[k], Q(0)) THEN FALSE ELSE Clip(p, q, k + 1, u1, u2))
         ELSE LET t == Div(q[k], p[k])
              IN  IF Lt(p[k], Q(0))
                  THEN Clip(p, q, k + 1, IF Gt(t, u1) THEN t ELSE u1, u2)
                  ELSE Clip(p, q, k + 1, u1, IF Lt(t, u2) THEN t ELSE u2)

\* the line through the two points tested, not the segment between them
LineHitsBox(lx1, ly1, lx2, ly2, B) ==
    LET dx == Sub(lx2, lx1)
        dy == Sub(ly2, ly1)
        p  == <<Sub(Q(0), dx), dx, Sub(Q(0), dy), dy>>
        q  == <<Sub(lx1, B.x), Sub(Right(B), lx1), Sub(ly1, B.y), Sub(Bottom(B), ly1)>>
    IN  Clip(p, q, 1, Q(-1000), Q(1000))

\* does the segment (lx1,ly1)-(lx2,ly2) meet the box of node B
SegmentHitsBox(lx1, ly1, lx2, ly2, B) ==
    LET dx == Sub(lx2, lx1)
        dy == Sub(ly2, ly1)
        p  == <<Sub(Q(0), dx), dx, Sub(Q(0), dy), dy>>
        q  == <<Sub(lx1, B.x), Sub(Right(B), lx1), Sub(ly1, B.y), Sub(Bottom(B), ly1)>>
    IN  Clip(p, q, 1, Q(0), Q(1))

\* the boxes a connector's path is tested against
Obstacles(ns, c) ==
    SelectSeq(Boxes(ns), LAMBDA k :
        /\ ns[k].type # "SECTION"
        /\ ns[k].type # "TEXT"
        /\ k # ns[c].connectorStart
        /\ k # ns[c].connectorEnd)

ThroughIssues(ns) ==
    LET cs == Connectors(ns)
    IN  Flatten([i \in 1..Len(cs) |->
            IF EndpointsResolve(ns, cs[i])
            THEN LET S  == ns[ns[cs[i]].connectorStart]
                     E  == ns[ns[cs[i]].connectorEnd]
                     os == Obstacles(ns, cs[i])
                 IN  Flatten([j \in 1..Len(os) |->
                        IF SegmentHitsBox(CenterX(S), CenterY(S), CenterX(E), CenterY(E),
                                          ns[os[j]])
                        THEN <<Issue("connector_through_shape", cs[i], os[j],
                                     Q(0), Q(0), "", <<>>)>>
                        ELSE <<>>])
            ELSE <<>>])

\* --- section bleed ---

VISUAL_INSET == 10

Bleed(edge, amount) == <<edge, MathRound(amount)>>

\* pass (a) with the top edge at the section's origin, not below the header
StructuralBleedsFromOrigin(C, sec) ==
    (IF Lt(C.x, Q(0)) THEN <<Bleed("left", Sub(Q(0), C.x))>> ELSE <<>>)
    \o (IF Gt(Right(C), sec.width)
        THEN <<Bleed("right", Sub(Right(C), sec.width))>> ELSE <<>>)
    \o (IF Lt(C.y, Q(0))
        THEN <<Bleed("top", Sub(Q(0), C.y))>> ELSE <<>>)
    \o (IF Gt(Bottom(C), sec.height)
        THEN <<Bleed("bottom", Sub(Bottom(C), sec.height))>> ELSE <<>>)

\* pass (a): a child of the section, in the section's own coordinates
StructuralBleeds(C, sec) ==
    (IF Lt(C.x, Q(0)) THEN <<Bleed("left", Sub(Q(0), C.x))>> ELSE <<>>)
    \o (IF Gt(Right(C), sec.width)
        THEN <<Bleed("right", Sub(Right(C), sec.width))>> ELSE <<>>)
    \o (IF Lt(C.y, Q(SECTION_PADDING))
        THEN <<Bleed("top", Sub(Q(SECTION_PADDING), C.y))>> ELSE <<>>)
    \o (IF Gt(Bottom(C), sec.height)
        THEN <<Bleed("bottom", Sub(Bottom(C), sec.height))>> ELSE <<>>)

\* pass (b): a box whose center lies inside the section's rectangle
InsideSection(C, sec) ==
    /\ Gt(CenterX(C), sec.x) /\ Lt(CenterX(C), Right(sec))
    /\ Gt(CenterY(C), sec.y) /\ Lt(CenterY(C), Bottom(sec))

\* pass (b) measured against the section's own edges, the header apart
VisualBleedsOfEdges(C, sec) ==
    (IF Lt(C.x, sec.x) THEN <<Bleed("left", Sub(sec.x, C.x))>> ELSE <<>>)
    \o (IF Gt(Right(C), Right(sec))
        THEN <<Bleed("right", Sub(Right(C), Right(sec)))>> ELSE <<>>)
    \o (IF Lt(C.y, Add(sec.y, Q(SECTION_PADDING)))
        THEN <<Bleed("top", Sub(Add(sec.y, Q(SECTION_PADDING)), C.y))>> ELSE <<>>)
    \o (IF Gt(Bottom(C), Bottom(sec))
        THEN <<Bleed("bottom", Sub(Bottom(C), Bottom(sec)))>> ELSE <<>>)

VisualBleeds(C, sec) ==
    (IF Lt(C.x, Add(sec.x, Q(VISUAL_INSET)))
     THEN <<Bleed("left", Sub(Add(sec.x, Q(VISUAL_INSET)), C.x))>> ELSE <<>>)
    \o (IF Gt(Right(C), Sub(Right(sec), Q(VISUAL_INSET)))
        THEN <<Bleed("right", Add(Sub(Right(C), Right(sec)), Q(VISUAL_INSET)))>>
        ELSE <<>>)
    \o (IF Lt(C.y, Add(sec.y, Q(SECTION_PADDING)))
        THEN <<Bleed("top", Sub(Add(sec.y, Q(SECTION_PADDING)), C.y))>> ELSE <<>>)
    \o (IF Gt(Bottom(C), Sub(Bottom(sec), Q(VISUAL_INSET)))
        THEN <<Bleed("bottom", Add(Sub(Bottom(C), Bottom(sec)), Q(VISUAL_INSET)))>>
        ELSE <<>>)

SectionBleedIssues(ns, s) ==
    LET sec   == ns[s]
        kids  == Children(ns, s)
        boxes == Boxes(ns)
        passA == Flatten([i \in 1..Len(kids) |->
                    LET C == ns[kids[i]]
                    IN  IF C.type # "CONNECTOR" /\ StructuralBleeds(C, sec) # <<>>
                        THEN <<Issue("section_bleed", kids[i], s,
                                 Q(MathCeil(MathMax(Add(Right(C), Q(30)), sec.width))),
                                 Q(MathCeil(MathMax(Add(Bottom(C), Q(30)), sec.height))),
                                 "a", StructuralBleeds(C, sec))>>
                        ELSE <<>>])
        passB == Flatten([i \in 1..Len(boxes) |->
                    LET C == ns[boxes[i]]
                    IN  IF /\ C.type # "SECTION"
                           /\ boxes[i] # s
                           /\ InsideSection(C, sec)
                           /\ VisualBleeds(C, sec) # <<>>
                        THEN <<Issue("section_bleed", boxes[i], s, Q(0), Q(0),
                                     "b", VisualBleeds(C, sec))>>
                        ELSE <<>>])
    IN  passA \o passB

BleedIssues(ns) ==
    LET kids == Children(ns, Page)
    IN  Flatten([i \in 1..Len(kids) |->
            IF ns[kids[i]].type = "SECTION" THEN SectionBleedIssues(ns, kids[i])
            ELSE <<>>])

\* the issues array, in the order the passes push to it
ValidationIssues(ns) ==
    TruncationIssues(ns) \o OverlapIssues(ns, Boxes(ns)) \o TightIssues(ns)
    \o ThroughIssues(ns) \o BleedIssues(ns)

\* a validation that also resizes the shapes it finds truncated
handleValidateLayoutResizing(ns) ==
    [nodes  |-> Array([k \in 1..Len(ns) |->
                    IF ns[k].parent = Page /\ Truncated(ns[k])
                    THEN [ns[k] EXCEPT !.width  = SuggestedWidth(ns[k]),
                                       !.height = SuggestedHeight(ns[k])]
                    ELSE ns[k]]),
     issues |-> ValidationIssues(ns)]

\* the handler reads the document and writes nothing to it.  [nodes, issues]
handleValidateLayout(ns) == [nodes |-> ns, issues |-> ValidationIssues(ns)]

\* ------------------------------------------------------------------------
\* update_element, delete_element
\* ------------------------------------------------------------------------

\* params of update_element: a key that is undefined is <<>>, a key that is
\* given is <<value>>; text is the new text's length
UpdateParams(id, x, y, width, height, text) ==
    [id |-> id, x |-> x, y |-> y, width |-> width, height |-> height, text |-> text]

\* 'resize' in node
HasResize(n) == n.type \in {"SHAPE_WITH_TEXT", "TEXT"}

\* the node of handleUpdateElement after the assignments (the node resolves)
UpdatedNode(n, p) ==
    LET n1   == [n EXCEPT !.x = IF p.x # <<>> THEN p.x[1] ELSE @,
                          !.y = IF p.y # <<>> THEN p.y[1] ELSE @]
        newW == IF p.width # <<>> THEN p.width[1] ELSE n.width
        newH == IF p.height # <<>> THEN p.height[1] ELSE n.height
        n2   == IF (p.width # <<>> \/ p.height # <<>>)
                   /\ (n.type = "SECTION" \/ HasResize(n))
                THEN [n1 EXCEPT !.width = newW, !.height = newH]
                ELSE n1
    IN  IF p.text # <<>> /\ n.type \in {"TEXT", "SHAPE_WITH_TEXT", "STICKY"}
        THEN [n2 EXCEPT !.characters = p.text[1]]
        ELSE n2

\* [nodes, success]: throws 'Element not found' when the id does not resolve
handleUpdateElement(ns, p) ==
    IF findNodeById(ns, p.id) = 0
    THEN [nodes |-> ns, success |-> FALSE]
    ELSE [nodes |-> [ns EXCEPT ![p.id] = UpdatedNode(ns[p.id], p)], success |-> TRUE]

\* What node.remove() leaves of the connectors that were attached to a removed
\* node is the canvas's doing, not the handler's: the endpoint keeps the id of
\* the removed node, or becomes a free position, or the connector goes too.
ConnectorFates == {"dangling", "position", "removed"}

\* the end of a connector after the removal, under one of the fates
EndAfter(ns, end, fate) ==
    IF end # 0 /\ ~Exists(ns, end) /\ fate = "position" THEN 0 ELSE end

Detach(ns, fate) ==
    Array([k \in 1..Len(ns) |->
        IF ns[k].type # "CONNECTOR" THEN ns[k]
        ELSE IF /\ fate = "removed"
                /\ \/ (ns[k].connectorStart # 0 /\ ~Exists(ns, ns[k].connectorStart))
                   \/ (ns[k].connectorEnd # 0 /\ ~Exists(ns, ns[k].connectorEnd))
             THEN NoNode
             ELSE [ns[k] EXCEPT !.connectorStart = EndAfter(ns, @, fate),
                                !.connectorEnd = EndAfter(ns, @, fate)]])

handleDeleteElement(ns, id, fate) ==
    IF findNodeById(ns, id) = 0
    THEN [nodes |-> ns, success |-> FALSE]
    ELSE [nodes |-> Detach(Remove(ns, id), fate), success |-> TRUE]

\* ------------------------------------------------------------------------
\* Scenes
\* ------------------------------------------------------------------------

Shape(parent, x, y, w, h, chars, font) ==
    [type |-> "SHAPE_WITH_TEXT", parent |-> parent, x |-> x, y |-> y,
     width |-> w, height |-> h, characters |-> chars, fontSize |-> font,
     connectorStart |-> 0, connectorEnd |-> 0]

Section(parent, x, y, w, h) ==
    [type |-> "SECTION", parent |-> parent, x |-> x, y |-> y,
     width |-> w, height |-> h, characters |-> 0, fontSize |-> Q(0),
     connectorStart |-> 0, connectorEnd |-> 0]

TextNode(parent, x, y, w, h, chars, font) ==
    [type |-> "TEXT", parent |-> parent, x |-> x, y |-> y,
     width |-> w, height |-> h, characters |-> chars, fontSize |-> font,
     connectorStart |-> 0, connectorEnd |-> 0]

Sticky(parent, x, y, chars) ==
    [type |-> "STICKY", parent |-> parent, x |-> x, y |-> y,
     width |-> Q(240), height |-> Q(240), characters |-> chars, fontSize |-> Q(0),
     connectorStart |-> 0, connectorEnd |-> 0]

Connector(parent, x, y, w, h, from, to) ==
    [type |-> "CONNECTOR", parent |-> parent, x |-> x, y |-> y,
     width |-> w, height |-> h, characters |-> 0, fontSize |-> Q(0),
     connectorStart |-> from, connectorEnd |-> to]

\* three page-level shapes of width 50 at x = 0, 60, 500; id 4 does not resolve
SceneFlat ==
    <<Shape(Page, Q(0), Q(0), Q(50), Q(50), 5, Q(14)),
      Shape(Page, Q(60), Q(20), Q(50), Q(30), 0, Q(14)),
      Shape(Page, Q(500), Q(10), Q(50), Q(40), 0, Q(14)),
      NoNode>>

\* {x:0,w:50}, {x:30,w:20}, {x:10,w:40} on the page, and a sticky
SceneAlign ==
    <<Shape(Page, Q(0), Q(0), Q(50), Q(50), 0, Q(14)),
      Shape(Page, Q(30), Q(70), Q(20), Q(30), 0, Q(14)),
      Shape(Page, Q(10), Q(120), Q(40), Q(40), 0, Q(14)),
      Sticky(Page, Q(300), Q(0), 3)>>

\* the same three as the children of a section, in the section's coordinates
SceneSection ==
    <<Section(Page, Q(100), Q(100), Q(300), Q(200)),
      Shape(1, Q(0), Q(50), Q(50), Q(50), 0, Q(14)),
      Shape(1, Q(30), Q(10), Q(20), Q(30), 0, Q(14)),
      Shape(1, Q(10), Q(100), Q(40), Q(40), 0, Q(14))>>

\* a child of a section and two page-level shapes
SceneMixed ==
    <<Section(Page, Q(100), Q(100), Q(300), Q(200)),
      Shape(1, Q(0), Q(60), Q(50), Q(50), 0, Q(14)),
      Shape(Page, Q(60), Q(0), Q(50), Q(50), 0, Q(14)),
      Shape(Page, Q(120), Q(0), Q(50), Q(50), 0, Q(14))>>

\* a section inside a section
SceneNested ==
    <<Section(Page, Q(0), Q(0), Q(600), Q(400)),
      Section(1, Q(50), Q(50), Q(200), Q(150)),
      Shape(2, Q(45), Q(45), Q(50), Q(50), 0, Q(14)),
      Shape(2, Q(120), Q(60), Q(50), Q(50), 0, Q(14))>>

\* a narrow, tall section whose children reach past its right edge
SceneGrow ==
    <<Section(Page, Q(0), Q(0), Q(100), Q(300)),
      Shape(1, Q(50), Q(50), Q(50), Q(50), 0, Q(14)),
      Shape(1, Q(200), Q(60), Q(50), Q(50), 0, Q(14)),
      Shape(Page, Q(700), Q(0), Q(50), Q(50), 0, Q(14))>>

\* two connected shapes 100 apart and a third shape below the path
SceneConnector ==
    <<Shape(Page, Q(0), Q(0), Q(100), Q(100), 0, Q(14)),
      Shape(Page, Q(200), Q(0), Q(100), Q(100), 0, Q(14)),
      Shape(Page, Q(150), Q(300), Q(100), Q(100), 0, Q(14)),
      Connector(Page, Q(100), Q(50), Q(100), Q(0), 1, 2)>>

\* two 100x100 boxes that share a 10x100 strip, a text node and a section
SceneOverlap ==
    <<Shape(Page, Q(0), Q(0), Q(100), Q(100), 0, Q(14)),
      Shape(Page, Q(90), Q(0), Q(100), Q(100), 0, Q(14)),
      TextNode(Page, Q(400), Q(0), Q(80), Q(20), 8, Q(16)),
      Section(Page, Q(-50), Q(-50), Q(400), Q(300))>>

\* a section whose children overlap, carry long text and sit on a connector path
SceneChildren ==
    <<Section(Page, Q(0), Q(0), Q(600), Q(400)),
      Shape(1, Q(50), Q(50), Q(100), Q(100), 200, Q(14)),
      Shape(1, Q(60), Q(60), Q(100), Q(100), 0, Q(14)),
      Shape(Page, Q(700), Q(50), Q(100), Q(100), 0, Q(14))>>

\* shapes that carry text of several lengths and font sizes
SceneText ==
    <<Shape(Page, Q(0), Q(0), Q(200), Q(100), 120, Q(14)),
      Shape(Page, Q(0), Q(200), Q(30), Q(60), 7, Q(16)),
      Shape(Page, Q(0), Q(400), Q(200), Q(100), 10, Q(0)),
      Sticky(Page, Q(400), Q(0), 500),
      Shape(Page, Q(0), Q(600), Q(100), Q(50), 15, Q(14))>>

\* a wide shape that two narrow ones lie on
SceneStacked ==
    <<Shape(Page, Q(0), Q(0), Q(100), Q(100), 0, Q(14)),
      Shape(Page, Q(10), Q(10), Q(10), Q(10), 0, Q(14)),
      Shape(Page, Q(20), Q(20), Q(10), Q(10), 0, Q(14)),
      Shape(Page, Q(500), Q(500), Q(50), Q(50), 0, Q(14))>>

\* a connector whose straight path crosses a child of a section
SceneBoxed ==
    <<Section(Page, Q(0), Q(0), Q(400), Q(200)),
      Shape(1, Q(150), Q(40), Q(100), Q(100), 0, Q(14)),
      Shape(Page, Q(-200), Q(0), Q(100), Q(100), 0, Q(14)),
      Shape(Page, Q(500), Q(100), Q(100), Q(100), 0, Q(14)),
      Connector(Page, Q(-100), Q(50), Q(600), Q(100), 3, 4)>>

\* a connector from a shape to itself and one that runs over it
SceneLoop ==
    <<Shape(Page, Q(0), Q(0), Q(100), Q(100), 0, Q(14)),
      Shape(Page, Q(40), Q(40), Q(100), Q(100), 0, Q(14)),
      Shape(Page, Q(300), Q(0), Q(100), Q(100), 0, Q(14)),
      Connector(Page, Q(50), Q(50), Q(0), Q(0), 1, 1),
      Connector(Page, Q(100), Q(50), Q(200), Q(0), 1, 3)>>

\* two connected shapes far apart, and a third shape over the page's origin
SceneDangling ==
    <<Shape(Page, Q(200), Q(0), Q(100), Q(100), 0, Q(14)),
      Shape(Page, Q(500), Q(0), Q(100), Q(100), 0, Q(14)),
      Shape(Page, Q(-50), Q(-50), Q(100), Q(100), 0, Q(14)),
      Connector(Page, Q(300), Q(50), Q(200), Q(0), 1, 2)>>

\* a connector from a shape on the page to a child of a section that lies
\* 70 to its right on the page, and a shape on the page between the two; the
\* connector is a child of the section and begins left of it
SceneCrossFrame ==
    <<Section(Page, Q(130), Q(0), Q(400), Q(300)),
      Shape(1, Q(40), Q(50), Q(100), Q(100), 0, Q(14)),
      Shape(Page, Q(0), Q(50), Q(100), Q(100), 0, Q(14)),
      Shape(Page, Frac(221, 2), Q(80), Q(50), Q(40), 0, Q(14)),
      Connector(1, Q(-30), Q(100), Q(70), Q(0), 3, 2)>>

Scenes ==
    {SceneFlat, SceneAlign, SceneSection, SceneMixed, SceneNested, SceneGrow,
     SceneConnector, SceneOverlap, SceneChildren, SceneText, SceneStacked,
     SceneBoxed, SceneLoop, SceneDangling, SceneCrossFrame}

\* ------------------------------------------------------------------------
\* The bridge (BridgeServer)
\* ------------------------------------------------------------------------

COMMAND_TIMEOUT_MS == 15000

\* the time one Tick lets pass, in ms
TickMs == 5000

\* sendCommand calls, WebSocket connections and waitForConnection calls per run
MaxCommands == 2

MaxSockets == 2

MaxWaits == 2

Sockets == 1..MaxSockets

\* the ids generateCommandId can return (crypto.randomUUID): one more than the
\* calls need; 0 stands for the empty id of the not-connected response
CommandIds == 1..(MaxCommands + 1)

\* a PluginResponse
Response(id, success, error) == [id |-> id, success |-> success, error |-> error]

NoResponse == Response(0, FALSE, "")

\* no timer: never set, cleared, or fired
NoTimer == -1

\* a plugin socket is set, whatever its readyState
isPluginSocketSet(socket, state) == socket # 0

\* isPluginConnected()
isPluginConnected(socket, state) ==
    socket # 0 /\ state[socket] = "OPEN"

\* the /health response
Health(socket, state, pending) ==
    [status |-> "healthy", pluginConnected |-> isPluginConnected(socket, state),
     pendingCommands |-> Cardinality({id \in DOMAIN pending : pending[id] # 0})]

\* resolve(response) of the promise of call c: a promise settles once, and
\* every call of its resolve function is counted
ResolveCall(cs, c, response) ==
    [cs EXCEPT ![c].settled = TRUE,
               ![c].response = IF cs[c].settled THEN @ ELSE response,
               ![c].resolves = @ + 1]

\* clearTimeout(resolver.timer)
ClearTimer(cs, c) == [cs EXCEPT ![c].timer = NoTimer]

\* the ids in the pending map
PendingIds(pending) == {id \in DOMAIN pending : pending[id] # 0}

\* for (const [id, resolver] of this.pendingCommands): clearTimeout and
\* resolve with a failure, over the ids still to visit
RECURSIVE RejectAll(_, _, _, _)
RejectAll(cs, pending, ids, error) ==
    IF ids = {} THEN cs
    ELSE LET id == CHOOSE i \in ids : TRUE
         IN  RejectAll(ResolveCall(ClearTimer(cs, pending[id]), pending[id],
                                   Response(id, FALSE, error)),
                       pending, ids \ {id}, error)

NoPending == [id \in CommandIds |-> 0]

\* the id of the oldest call in the pending map, 0 when the map is empty
OldestPending(pending) ==
    IF PendingIds(pending) = {} THEN 0
    ELSE CHOOSE id \in PendingIds(pending) :
            \A other \in PendingIds(pending) : pending[id] <= pending[other]

\* handlePluginResponse that settles the oldest pending call
handlePluginResponseInOrder(cs, pending, response) ==
    LET id == OldestPending(pending)
    IN  IF id = 0
        THEN [commands |-> cs, pendingCommands |-> pending]
        ELSE [commands |-> ResolveCall(ClearTimer(cs, pending[id]), pending[id], response),
              pendingCommands |-> [pending EXCEPT ![id] = 0]]

\* a handlePluginResponse that leaves the timer of the command running
handlePluginResponseKeepsTimer(cs, pending, response) ==
    IF ~(response.id \in DOMAIN pending) \/ pending[response.id] = 0
    THEN [commands |-> cs, pendingCommands |-> pending]
    ELSE [commands |-> ResolveCall(cs, pending[response.id], response),
          pendingCommands |-> [pending EXCEPT ![response.id] = 0]]

\* handlePluginResponse: [commands, pendingCommands]
handlePluginResponse(cs, pending, response) ==
    IF ~(response.id \in DOMAIN pending) \/ pending[response.id] = 0
    THEN [commands |-> cs, pendingCommands |-> pending]
    ELSE [commands |-> ResolveCall(ClearTimer(cs, pending[response.id]),
                                   pending[response.id], response),
          pendingCommands |-> [pending EXCEPT ![response.id] = 0]]

\* a 'close' handler that forgets the socket and leaves the pending commands
onCloseKeepsPending(socket, cs, pending, ws) ==
    [pluginSocket |-> IF socket = ws THEN 0 ELSE socket,
     commands |-> cs, pendingCommands |-> pending]

\* the 'close' handler of a socket: [pluginSocket, commands, pendingCommands]
onClose(socket, cs, pending, ws) ==
    [pluginSocket |-> IF socket = ws THEN 0 ELSE socket,
     commands |-> RejectAll(cs, pending, PendingIds(pending), "Plugin disconnected"),
     pendingCommands |-> NoPending]

\* one sendCommand call: the id generated for it (0: none), its timer, its
\* promise, and the number of times resolve was called on it
CommandCall(id, timer, settled, response) ==
    [id |-> id, timer |-> timer, settled |-> settled, response |-> response,
     resolves |-> IF settled THEN 1 ELSE 0]

NOT_CONNECTED == "FigJam plugin is not connected"

\* a sendCommand that writes a command to the socket only when no other is
\* pending
sendCommandInTurn(socket, state, cs, pending, out, id, type) ==
    IF ~isPluginConnected(socket, state)
    THEN [commands |-> Append(cs, CommandCall(0, NoTimer, TRUE,
                                              Response(0, FALSE, NOT_CONNECTED))),
          pendingCommands |-> pending, sent |-> out]
    ELSE [commands |-> Append(cs, CommandCall(id, COMMAND_TIMEOUT_MS, FALSE, NoResponse)),
          pendingCommands |-> [pending EXCEPT ![id] = Len(cs) + 1],
          sent |-> IF PendingIds(pending) = {}
                   THEN Append(out, [socket |-> socket, id |-> id, type |-> type])
                   ELSE out]

\* sendCommand(type, params), id being what generateCommandId returns:
\* [commands, pendingCommands, sent]
sendCommand(socket, state, cs, pending, out, id, type) ==
    IF ~isPluginConnected(socket, state)
    THEN [commands |-> Append(cs, CommandCall(0, NoTimer, TRUE,
                                              Response(0, FALSE, NOT_CONNECTED))),
          pendingCommands |-> pending, sent |-> out]
    ELSE [commands |-> Append(cs, CommandCall(id, COMMAND_TIMEOUT_MS, FALSE, NoResponse)),
          pendingCommands |-> [pending EXCEPT ![id] = Len(cs) + 1],
          sent |-> Append(out, [socket |-> socket, id |-> id, type |-> type])]

\* a timer callback that forgets the command without resolving its promise
onCommandTimeoutSilent(cs, pending, c) ==
    [commands |-> [cs EXCEPT ![c].timer = NoTimer],
     pendingCommands |-> [pending EXCEPT ![cs[c].id] = 0]]

\* the timer callback of call c: [commands, pendingCommands]
onCommandTimeout(cs, pending, c) ==
    [commands |-> ResolveCall([cs EXCEPT ![c].timer = NoTimer], c,
                              Response(cs[c].id, FALSE, "Command timed out")),
     pendingCommands |-> [pending EXCEPT ![cs[c].id] = 0]]

\* stop(): [commands, pendingCommands]
stop(cs, pending) ==
    [commands |-> RejectAll(cs, pending, PendingIds(pending), "Server shutting down"),
     pendingCommands |-> NoPending]

\* one waitForConnection call: its promise (settled, value), the time left to
\* its deadline, its interval (polling: not cleared) and the time to the next
\* round of the interval
WaitCall(settled, value, deadline, polling, pollIntervalMs, next) ==
    [settled |-> settled, value |-> value, deadline |-> deadline,
     polling |-> polling, pollIntervalMs |-> pollIntervalMs, next |-> next]

\* setInterval takes a delay below 1 ms as 1 ms
Delay(ms) == IF ms < 1 THEN 1 ELSE ms

\* waitForConnection(timeoutMs, pollIntervalMs)
waitForConnection(socket, state, timeoutMs, pollIntervalMs) ==
    IF isPluginConnected(socket, state)
    THEN WaitCall(TRUE, TRUE, 0, FALSE, pollIntervalMs, 0)
    ELSE WaitCall(FALSE, FALSE, timeoutMs, TRUE, pollIntervalMs, Delay(pollIntervalMs))

\* a round of the interval that never clears it
onPollKeepsPolling(socket, state, w) ==
    IF w.settled \/ (~isPluginConnected(socket, state) /\ w.deadline > 0)
    THEN [w EXCEPT !.next = Delay(w.pollIntervalMs)]
    ELSE [w EXCEPT !.settled = TRUE, !.value = isPluginConnected(socket, state),
                   !.next = Delay(w.pollIntervalMs)]

\* the interval callback of a waitForConnection call
onPoll(socket, state, w) ==
    IF isPluginConnected(socket, state)
    THEN [w EXCEPT !.settled = TRUE, !.value = TRUE, !.polling = FALSE, !.next = 0]
    ELSE IF w.deadline <= 0
    THEN [w EXCEPT !.settled = TRUE, !.value = FALSE, !.polling = FALSE, !.next = 0]
    ELSE [w EXCEPT !.next = Delay(w.pollIntervalMs)]

\* a timer after TickMs more
After(ms) == IF ms > TickMs THEN ms - TickMs ELSE 0

\* the bridge after construction: no socket, nothing pending
BridgeInit ==
    /\ pluginSocket = 0
    /\ readyState = [ws \in Sockets |-> "NONE"]
    /\ pendingCommands = NoPending
    /\ commands = <<>>
    /\ sent = <<>>
    /\ waits = <<>>
    /\ stopped = FALSE

\* ------------------------------------------------------------------------
\* The batch_create tool (MCP server)
\* ------------------------------------------------------------------------

\* An id is a string in the code.  Here the id of a node is its index in nodes,
\* a refId is any number, and 0 is the empty string.  A key of an element spec
\* that is left out is <<>>, one that is given is <<value>>.
BatchElement(type, refId, startElementId, endElementId) ==
    [type |-> type, refId |-> refId, startElementId |-> startElementId,
     endElementId |-> endElementId]

\* spec.startElementId ?? ''
OrEmpty(key) == IF key = <<>> THEN 0 ELSE key[1]

\* new Map<string, string>()
NoRefs == [r \in {} |-> 0]

\* refIdMap.set(refId, id)
SetRef(refIdMap, refId, id) ==
    [r \in DOMAIN refIdMap \cup {refId} |-> IF r = refId THEN id ELSE refIdMap[r]]

\* a resolveRef that hands every id on as it was given
resolveRefVerbatim(refIdMap, id) == id

\* resolveRef: refIdMap.get(id) ?? id
resolveRef(refIdMap, id) == IF id \in DOMAIN refIdMap THEN refIdMap[id] ELSE id

\* the command and the params the loop body sends for one element spec
CreateCommand(spec, refIdMap) ==
    [command        |-> "create_" \o spec.type,
     startElementId |-> IF spec.type = "connector"
                        THEN resolveRef(refIdMap, OrEmpty(spec.startElementId)) ELSE 0,
     endElementId   |-> IF spec.type = "connector"
                        THEN resolveRef(refIdMap, OrEmpty(spec.endElementId)) ELSE 0]

\* the node a create handler of the plugin makes from the defaults the tool
\* fills in (x, y 0; a shape 200x100; a section 600x400; a text of size 16)
CreatedNode(request) ==
    CASE request.command = "create_shape"   -> Shape(Page, Q(0), Q(0), Q(200), Q(100), 0, Q(0))
      [] request.command = "create_sticky"  -> Sticky(Page, Q(0), Q(0), 0)
      [] request.command = "create_text"    -> TextNode(Page, Q(0), Q(0), Q(0), Q(0), 0, Q(16))
      [] request.command = "create_section" -> Section(Page, Q(0), Q(0), Q(600), Q(400))
      [] OTHER -> Connector(Page, Q(0), Q(0), Q(0), Q(0),
                            request.startElementId, request.endElementId)

\* the plugin's create handlers under onmessage's try/catch: handleCreateConnector
\* throws when an end does not resolve.  [nodes, success, id]
handleCreate(ns, request) ==
    IF /\ request.command = "create_connector"
       /\ \/ findNodeById(ns, request.startElementId) = 0
          \/ findNodeById(ns, request.endElementId) = 0
    THEN [nodes |-> ns, success |-> FALSE, id |-> 0]
    ELSE [nodes |-> Append(ns, CreatedNode(request)), success |-> TRUE,
          id |-> Len(ns) + 1]

\* what becomes of one bridge.sendCommand call of the loop: the plugin runs
\* the command and its response resolves the promise; the bridge resolves it
\* with a failure before anything was sent (not connected); the plugin runs the
\* command but the promise is resolved with a failure first (timeout,
\* disconnect, shutdown); the call throws
Outcomes == {"answered", "refused", "unanswered", "throws"}

\* the tool's output
BatchOutput(results, errors) ==
    [created |-> results, count |-> Len(results), errors |-> errors,
     isError |-> Len(errors) > 0 /\ Len(results) = 0]

\* one batch_create call: the specs, the index of the spec the loop is at,
\* refIdMap, results and errors; requests and recorded note, per spec, what was
\* sent to the plugin and the id the tool recorded (0: none); output is <<>>
\* until the call returns
Batch(specs, next, refIdMap, results, errors, requests, recorded, output) ==
    [specs |-> specs, next |-> next, refIdMap |-> refIdMap, results |-> results,
     errors |-> errors, requests |-> requests, recorded |-> recorded,
     output |-> output]

\* no call made yet
NoBatch == Batch(<<>>, 0, NoRefs, <<>>, <<>>, <<>>, <<>>, <<>>)

\* the call returns once the loop is over
Returned(specs, next, results, errors) ==
    IF next > Len(specs) THEN <<BatchOutput(results, errors)>> ELSE <<>>

\* the tool is called: the loop is entered, or left at once for no specs
batch_create(specs) ==
    Batch(specs, 1, NoRefs, <<>>, <<>>, <<>>, <<>>, Returned(specs, 1, <<>>, <<>>))

\* one round of the loop, for the spec at b.next: [batch, nodes]
batchRound(b, ns, outcome) ==
    LET spec    == b.specs[b.next]
        request == CreateCommand(spec, b.refIdMap)
        ran     == outcome \in {"answered", "unanswered"}
        h       == IF ran THEN handleCreate(ns, request)
                   ELSE [nodes |-> ns, success |-> FALSE, id |-> 0]
        ok      == outcome = "answered" /\ h.success
        named   == spec.refId # <<>> /\ spec.refId[1] # 0
        results == IF ok
                   THEN Append(b.results,
                               [refId |-> spec.refId, id |-> h.id, type |-> spec.type])
                   ELSE b.results
        errors  == IF ok THEN b.errors
                   ELSE Append(b.errors, [type |-> spec.type, refId |-> spec.refId])
    IN  [batch |-> Batch(b.specs, b.next + 1,
                         IF ok /\ named THEN SetRef(b.refIdMap, spec.refId[1], h.id)
                         ELSE b.refIdMap,
                         results, errors,
                         Append(b.requests, [request EXCEPT !.command =
                                    IF outcome \in {"refused", "throws"} THEN "" ELSE @]),
                         Append(b.recorded, IF ok THEN h.id ELSE 0),
                         Returned(b.specs, b.next + 1, results, errors)),
         nodes |-> h.nodes]

\* ------------------------------------------------------------------------
\* The commands and their inputs
\* ------------------------------------------------------------------------

\* commands per run, and how many of the first of them may be layout commands
MaxSteps == 2

MaxLayoutSteps == 1

\* elementIds of align_elements and distribute_elements: ids in and out of
\* order, repeated, and ids that do not resolve
IdLists ==
    {<<2>>, <<2, 3>>, <<1, 2, 3>>, <<2, 3, 4>>, <<4, 3, 2>>, <<2, 2, 3>>}

\* spacing of distribute_elements: left out, the default given, a negative one
Spacings == {<<>>, <<Q(60)>>, <<Q(-60)>>}

\* params of update_element
Updates ==
    {UpdateParams(2, <<Q(150)>>, <<>>, <<>>, <<>>, <<>>),
     UpdateParams(2, <<Frac(301, 2)>>, <<>>, <<>>, <<>>, <<>>),
     UpdateParams(2, <<Q(300)>>, <<>>, <<>>, <<>>, <<>>),
     UpdateParams(2, <<Q(180)>>, <<>>, <<>>, <<>>, <<>>),
     UpdateParams(2, <<Q(100)>>, <<>>, <<>>, <<>>, <<>>),
     UpdateParams(2, <<Frac(899, 10)>>, <<>>, <<>>, <<>>, <<>>),
     UpdateParams(2, <<Q(89)>>, <<>>, <<>>, <<>>, <<>>),
     UpdateParams(3, <<>>, <<Q(0)>>, <<>>, <<>>, <<>>),
     UpdateParams(3, <<>>, <<>>, <<>>, <<>>, <<40>>),
     UpdateParams(1, <<>>, <<>>, <<Q(80)>>, <<Q(80)>>, <<>>),
     UpdateParams(9, <<Q(0)>>, <<>>, <<>>, <<>>, <<>>)}

\* ids of delete_element
DeleteIds == {1, 2, 4, 9}

NoData == ShortData(0)

\* what the caller last did and got back
Call(op, ids, arg, spacing, success, data, shifts, order, found, applied) ==
    [op |-> op, ids |-> ids, arg |-> arg, spacing |-> spacing, success |-> success,
     data |-> data, shifts |-> shifts, order |-> order, issues |-> found,
     applied |-> applied]

\* a layout command is one of the first commands of a run, the deletions that
\* came before it not counted
LayoutAllowed(h) ==
    /\ Len(h) < MaxSteps
    /\ Len(SelectSeq(h, LAMBDA op : op # "delete")) < MaxLayoutSteps

Init ==
    /\ BridgeInit
    /\ batch = NoBatch
    /\ nodes \in Scenes
    /\ last = Call("none", <<>>, "", <<>>, TRUE, NoData, NoShifts(nodes), <<>>, <<>>, <<>>)
    /\ history = <<>>

AlignElements ==
    \E ids \in IdLists, alignment \in Alignments :
        LET r == handleAlignElements(nodes, ids, alignment)
        IN  /\ LayoutAllowed(history)
            /\ nodes' = r.nodes
            /\ last' = Call("align", ids, alignment, <<>>, TRUE, r.data, r.shifts,
                            r.order, <<>>, <<>>)
            /\ history' = Append(history, "align")
            /\ UNCHANGED <<bridgeVars, batch>>

DistributeElements ==
    \E ids \in IdLists, direction \in Directions, spacing \in Spacings :
        LET r == handleDistributeElements(nodes, ids, direction, spacing)
        IN  /\ LayoutAllowed(history)
            /\ nodes' = r.nodes
            /\ last' = Call("distribute", ids, direction, spacing, TRUE, r.data,
                            r.shifts, r.order, <<>>, <<>>)
            /\ history' = Append(history, "distribute")
            /\ UNCHANGED <<bridgeVars, batch>>

\* align_elements when a canvas write throws: onmessage catches and answers
\* success: false
AlignElementsThrows ==
    /\ LayoutAllowed(history)
    /\ \E ids \in IdLists, alignment \in Alignments :
        LET nl == Resolve(nodes, ids)
        IN  \E done \in ThrowPoints(nodes, nl, AlignedUpTo(nodes, nl, alignment, Len(nl)),
                                     TooFewToAlign(nl)) :
                LET r == handleAlignElementsThrowing(nodes, ids, alignment, done)
                IN  /\ nodes' = r.nodes
                    /\ last' = Call("align", ids, alignment, <<>>, FALSE, r.data,
                                    r.shifts, r.order, <<>>, <<>>)
                    /\ history' = Append(history, "align")
                    /\ UNCHANGED <<bridgeVars, batch>>

\* distribute_elements when a canvas write throws
DistributeElementsThrows ==
    /\ LayoutAllowed(history)
    /\ \E ids \in IdLists, direction \in Directions, spacing \in Spacings :
        LET nl == Resolve(nodes, ids)
        IN  \E done \in ThrowPoints(nodes, nl,
                    handleDistributeElementsThrowing(nodes, ids, direction, spacing,
                                                     Len(nl)).nodes,
                    TooFewToDistribute(nl)) :
                LET r == handleDistributeElementsThrowing(nodes, ids, direction,
                                                          spacing, done)
                IN  /\ nodes' = r.nodes
                    /\ last' = Call("distribute", ids, direction, spacing, FALSE,
                                    r.data, r.shifts, r.order, <<>>, <<>>)
                    /\ history' = Append(history, "distribute")
                    /\ UNCHANGED <<bridgeVars, batch>>

ValidateLayout ==
    LET r == handleValidateLayout(nodes)
    IN  /\ Len(history) < MaxSteps
        /\ nodes' = r.nodes
        /\ last' = Call("validate", <<>>, "", <<>>, TRUE, NoData, NoShifts(nodes), <<>>,
                        r.issues, <<>>)
        /\ history' = Append(history, "validate")
        /\ UNCHANGED <<bridgeVars, batch>>

UpdateElement ==
    \E p \in Updates :
        LET r == handleUpdateElement(nodes, p)
        IN  /\ Len(history) < MaxSteps
            /\ nodes' = r.nodes
            /\ last' = Call("update", <<p.id>>, "", <<>>, r.success, NoData, NoShifts(nodes),
                            <<>>, <<>>, <<>>)
            /\ history' = Append(history, "update")
            /\ UNCHANGED <<bridgeVars, batch>>

\* the caller follows a text_truncated issue of the report it just received:
\* update_element with the suggested width and height
ApplySuggestion ==
    \E i \in DOMAIN last.issues :
        LET issue == last.issues[i]
            p == UpdateParams(issue.elementId, <<>>, <<>>, <<issue.v1>>, <<issue.v2>>, <<>>)
            r == handleUpdateElement(nodes, p)
        IN  /\ Len(history) < MaxSteps
            /\ last.op = "validate"
            /\ issue.type = "text_truncated"
            /\ nodes' = r.nodes
            /\ last' = Call("update", <<p.id>>, "", <<>>, r.success, NoData, NoShifts(nodes),
                            <<>>, <<>>, <<issue>>)
            /\ history' = Append(history, "update")
            /\ UNCHANGED <<bridgeVars, batch>>

DeleteElement ==
    \E id \in DeleteIds, fate \in ConnectorFates :
        LET r == handleDeleteElement(nodes, id, fate)
        IN  /\ Len(history) < MaxSteps
            /\ nodes' = r.nodes
            /\ last' = Call("delete", <<id>>, "", <<>>, r.success, NoData, NoShifts(nodes),
                            <<>>, <<>>, <<>>)
            /\ history' = Append(history, "delete")
            /\ UNCHANGED <<bridgeVars, batch>>

Next ==
    \/ AlignElements
    \/ DistributeElements
    \/ AlignElementsThrows
    \/ DistributeElementsThrows
    \/ ValidateLayout
    \/ UpdateElement
    \/ ApplySuggestion
    \/ DeleteElement

Spec == Init /\ [][Next]_vars

\* ------------------------------------------------------------------------
\* The bridge: its events and calls
\* ------------------------------------------------------------------------

\* (timeoutMs, pollIntervalMs) of waitForConnection: a deadline after the
\* second round, one before the first round, and one already passed
WaitArgs == {<<10000, 5000>>, <<5000, 10000>>, <<0, 5000>>}

\* what a socket delivers: a PluginResponse naming any id, or text that
\* JSON.parse rejects
Messages ==
    {[parses |-> TRUE, response |-> Response(id, ok, IF ok THEN "" ELSE "plugin")] :
        id \in CommandIds, ok \in BOOLEAN}
    \cup {[parses |-> FALSE, response |-> NoResponse]}

\* wss 'connection': a new socket becomes the plugin socket
PluginConnects ==
    \E ws \in Sockets :
        /\ ~stopped
        /\ readyState[ws] = "NONE"
        /\ \A other \in Sockets : other < ws => readyState[other] # "NONE"
        /\ readyState' = [readyState EXCEPT ![ws] = "OPEN"]
        /\ pluginSocket' = ws
        /\ UNCHANGED <<pendingCommands, commands, sent, waits, stopped, vars, batch>>

\* the closing handshake of a socket begins: no handler runs
SocketClosing ==
    \E ws \in Sockets :
        /\ readyState[ws] = "OPEN"
        /\ readyState' = [readyState EXCEPT ![ws] = "CLOSING"]
        /\ UNCHANGED <<pluginSocket, pendingCommands, commands, sent, waits, stopped, vars, batch>>

\* ws 'close'
SocketCloses ==
    \E ws \in Sockets :
        LET r == onClose(pluginSocket, commands, pendingCommands, ws)
        IN  /\ readyState[ws] \in {"OPEN", "CLOSING"}
            /\ readyState' = [readyState EXCEPT ![ws] = "CLOSED"]
            /\ pluginSocket' = r.pluginSocket
            /\ commands' = r.commands
            /\ pendingCommands' = r.pendingCommands
            /\ UNCHANGED <<sent, waits, stopped, vars, batch>>

\* ws 'message'
PluginMessage ==
    \E ws \in Sockets, m \in Messages :
        LET r == IF m.parses
                 THEN handlePluginResponse(commands, pendingCommands, m.response)
                 ELSE [commands |-> commands, pendingCommands |-> pendingCommands]
        IN  /\ readyState[ws] \in {"OPEN", "CLOSING"}
            /\ commands' = r.commands
            /\ pendingCommands' = r.pendingCommands
            /\ UNCHANGED <<pluginSocket, readyState, sent, waits, stopped, vars, batch>>

\* the ids generateCommandId has not returned yet
FreshIds(cs) == CommandIds \ {cs[c].id : c \in DOMAIN cs}

\* a sendCommand call: the bridge relays every type of command alike, and one
\* type stands for all
SendCommand ==
    \E id \in FreshIds(commands) :
        LET r == sendCommand(pluginSocket, readyState, commands, pendingCommands, sent, id,
                             "validate_layout")
        IN  /\ Len(commands) < MaxCommands
            /\ commands' = r.commands
            /\ pendingCommands' = r.pendingCommands
            /\ sent' = r.sent
            /\ UNCHANGED <<pluginSocket, readyState, waits, stopped, vars, batch>>

\* the timer of a call fires
CommandTimesOut ==
    \E c \in DOMAIN commands :
        LET r == onCommandTimeout(commands, pendingCommands, c)
        IN  /\ commands[c].timer = 0
            /\ commands' = r.commands
            /\ pendingCommands' = r.pendingCommands
            /\ UNCHANGED <<pluginSocket, readyState, sent, waits, stopped, vars, batch>>

WaitForConnection ==
    \E args \in WaitArgs :
        /\ Len(waits) < MaxWaits
        /\ waits' = Append(waits, waitForConnection(pluginSocket, readyState,
                                                     args[1], args[2]))
        /\ UNCHANGED <<pluginSocket, readyState, pendingCommands, commands, sent,
                       stopped, vars, batch>>

\* a round of the interval of a waitForConnection call
Poll ==
    \E w \in DOMAIN waits :
        /\ waits[w].polling
        /\ waits[w].next = 0
        /\ waits' = [waits EXCEPT ![w] = onPoll(pluginSocket, readyState, waits[w])]
        /\ UNCHANGED <<pluginSocket, readyState, pendingCommands, commands, sent,
                       stopped, vars, batch>>

Stop ==
    LET r == stop(commands, pendingCommands)
    IN  /\ ~stopped
        /\ stopped' = TRUE
        /\ commands' = r.commands
        /\ pendingCommands' = r.pendingCommands
        /\ UNCHANGED <<pluginSocket, readyState, sent, waits, vars, batch>>

\* a timer that is set and running
Armed(cs, c) == cs[c].timer # NoTimer

\* TickMs pass: no timer is overdue, since a due timer runs before later ones
Tick ==
    /\ \/ \E c \in DOMAIN commands : Armed(commands, c)
       \/ \E w \in DOMAIN waits : waits[w].polling
    /\ \A c \in DOMAIN commands : commands[c].timer # 0
    /\ \A w \in DOMAIN waits : waits[w].polling => waits[w].next # 0
    /\ commands' = [c \in DOMAIN commands |->
                      IF Armed(commands, c)
                      THEN [commands[c] EXCEPT !.timer = After(@)] ELSE commands[c]]
    /\ waits' = [w \in DOMAIN waits |->
                   IF waits[w].polling
                   THEN [waits[w] EXCEPT !.deadline = After(@), !.next = After(@)]
                   ELSE waits[w]]
    /\ UNCHANGED <<pluginSocket, readyState, pendingCommands, sent, stopped, vars, batch>>

BridgeStart ==
    /\ BridgeInit
    /\ batch = NoBatch
    /\ nodes = SceneFlat
    /\ last = Call("none", <<>>, "", <<>>, TRUE, NoData, NoShifts(nodes), <<>>, <<>>, <<>>)
    /\ history = <<>>

\* the bridge relaying commands
BridgeNext ==
    \/ PluginConnects
    \/ SocketClosing
    \/ SocketCloses
    \/ PluginMessage
    \/ SendCommand
    \/ CommandTimesOut
    \/ Stop
    \/ Tick

BridgeSpec == BridgeStart /\ [][BridgeNext]_bridgeVars

\* Node's event loop runs every due timer and time goes on
BridgeLive ==
    /\ BridgeSpec
    /\ WF_bridgeVars(Tick)
    /\ WF_bridgeVars(CommandTimesOut)

\* the bridge waiting for the plugin: waitForConnection reads pluginSocket and
\* readyState only, and no command touches what it reads or writes
WaitNext ==
    \/ PluginConnects
    \/ SocketClosing
    \/ SocketCloses
    \/ WaitForConnection
    \/ Poll
    \/ Stop
    \/ Tick

WaitSpec == BridgeStart /\ [][WaitNext]_bridgeVars

WaitLive ==
    /\ WaitSpec
    /\ WF_bridgeVars(Tick)
    /\ WF_bridgeVars(Poll)

\* the tools that validate, align and distribute: each handler is one
\* sendCommand call whose promise it awaits
LayoutTools == {"validate_layout", "align_elements", "distribute_elements"}

\* a client calls one of the three tools, whether or not an earlier call has
\* returned
ToolCall ==
    /\ Len(commands) < MaxCommands
    /\ \E id \in FreshIds(commands), tool \in LayoutTools :
        LET r == sendCommand(pluginSocket, readyState, commands, pendingCommands, sent, id,
                             tool)
        IN  /\ commands' = r.commands
            /\ pendingCommands' = r.pendingCommands
            /\ sent' = r.sent
            /\ UNCHANGED <<pluginSocket, readyState, waits, stopped, vars, batch>>

\* the bridge relaying the calls of the three tools
ToolNext ==
    \/ PluginConnects
    \/ SocketCloses
    \/ PluginMessage
    \/ ToolCall
    \/ CommandTimesOut
    \/ Tick

ToolSpec == BridgeStart /\ [][ToolNext]_bridgeVars

\* ------------------------------------------------------------------------
\* The batch_create tool: its call and the rounds of its loop
\* ------------------------------------------------------------------------

\* specs of at most this many elements
MaxBatch == 3

\* refIds 91 and 92, the empty refId, and 2, which is also the id of a node
\* that is on the page before the call
BatchElements ==
    {BatchElement("shape", <<91>>, <<>>, <<>>),
     BatchElement("sticky", <<92>>, <<>>, <<>>),
     BatchElement("section", <<91>>, <<>>, <<>>),
     BatchElement("text", <<>>, <<>>, <<>>),
     BatchElement("shape", <<0>>, <<>>, <<>>),
     BatchElement("shape", <<2>>, <<>>, <<>>),
     BatchElement("connector", <<92>>, <<91>>, <<92>>),
     BatchElement("connector", <<>>, <<91>>, <<2>>),
     BatchElement("connector", <<>>, <<0>>, <<91>>),
     BatchElement("connector", <<>>, <<91>>, <<>>)}

RECURSIVE SeqsUpTo(_, _)
SeqsUpTo(S, n) ==
    IF n = 0 THEN {<<>>}
    ELSE LET shorter == SeqsUpTo(S, n - 1)
         IN  shorter \cup {Append(s, e) : s \in shorter, e \in S}

BatchInputs == SeqsUpTo(BatchElements, MaxBatch)

BatchCreate ==
    /\ batch = NoBatch
    /\ \E specs \in BatchInputs :
        /\ batch' = batch_create(specs)
        /\ UNCHANGED <<vars, bridgeVars>>

\* the loop body for one spec, up to the next await
CreateElement ==
    /\ batch # NoBatch
    /\ batch.output = <<>>
    /\ \E outcome \in Outcomes :
        LET r == batchRound(batch, nodes, outcome)
        IN  /\ batch' = r.batch
            /\ nodes' = r.nodes
            /\ UNCHANGED <<last, history, bridgeVars>>

BatchNext ==
    \/ BatchCreate
    \/ CreateElement

batchVars == <<batch, nodes>>

BatchSpec == BridgeStart /\ [][BatchNext]_batchVars

\* ------------------------------------------------------------------------
\* Properties
\* ------------------------------------------------------------------------

IsLayout(op) == op \in {"align", "distribute"}

Sections(ns) == {k \in DOMAIN ns : ns[k].type = "SECTION"}

\* C1: over an alignElements or distributeElements call every Section keeps or
\* grows its width and its height: auto-fit never makes a section smaller on
\* either axis.
AutoFitNeverShrinks ==
    [][IsLayout(last'.op) =>
        \A k \in Sections(nodes) :
            /\ nodes'[k].type = "SECTION"
            /\ Ge(nodes'[k].width, nodes[k].width)
            /\ Ge(nodes'[k].height, nodes[k].height)]_vars

\* a layout call has returned with a section it resized, and one axis of that
\* section needed less than it had
AutoFitGrewOneAxis ==
    /\ IsLayout(last.op)
    /\ \E i \in DOMAIN last.data.resizedSections :
          LET sec  == last.data.resizedSections[i]
              kids == Children(nodes, sec)
          IN  \/ \A m \in DOMAIN kids :
                    Lt(Add(Bottom(nodes[kids[m]]), Q(SECTION_PADDING)), nodes[sec].height)
              \/ \A m \in DOMAIN kids :
                    Lt(Add(Right(nodes[kids[m]]), Q(SECTION_PADDING)), nodes[sec].width)

\* C2: validateLayout changes nothing of the document (no element's bounds, text,
\* container or existence, no section's size), and a validateLayout call that
\* directly follows another returns the same issue list.
ValidateIsPure ==
    [][last'.op = "validate" =>
        /\ nodes' = nodes
        /\ (last.op = "validate" => last'.issues = last.issues)]_vars

\* two validateLayout calls in a row, on a document that has issues to report
ValidatedTwice ==
    /\ history = <<"validate", "validate">>
    /\ last.issues # <<>>

\* the ids of a list, each once, in the order of first mention
RECURSIVE Distinct(_)
Distinct(ids) ==
    IF ids = <<>> THEN <<>>
    ELSE LET front == Distinct(SubSeq(ids, 1, Len(ids) - 1))
             id    == ids[Len(ids)]
         IN  IF id \in Range(front) THEN front ELSE Append(front, id)

Mean(s) == Div(SumSeq(s), Q(Len(s)))

\* n sits on the target that the elements els of the document `before` define
OnTarget(before, els, alignment, n) ==
    LET of(k) == before[els[k]]
        I     == 1..Len(els)
    IN  CASE alignment = "left"   -> n.x = MinSeq(Array([k \in I |-> of(k).x]))
          [] alignment = "right"  -> Right(n) = MaxSeq(Array([k \in I |-> Right(of(k))]))
          [] alignment = "center" -> CenterX(n) = Mean(Array([k \in I |-> CenterX(of(k))]))
          [] alignment = "top"    -> n.y = MinSeq(Array([k \in I |-> of(k).y]))
          [] alignment = "bottom" -> Bottom(n) = MaxSeq(Array([k \in I |-> Bottom(of(k))]))
          [] alignment = "middle" -> CenterY(n) = Mean(Array([k \in I |-> CenterY(of(k))]))

\* the shift auto-fit gave to the children of the container of n
ShiftOf(shifts, n) == IF n.parent = Page THEN ZeroShift ELSE shifts[n.parent]

\* n with the shift of its container taken back and the size it had in `was`
Unshifted(shifts, n, was) ==
    [n EXCEPT !.x = Sub(@, ShiftOf(shifts, n)[1]), !.y = Sub(@, ShiftOf(shifts, n)[2]),
              !.width = was.width, !.height = was.height]

AlignReturned == last'.op = "align" /\ ~last'.data.short /\ history' # history

\* C3 as stated: after alignElements with at least 2 resolved elements every
\* resolved element sits on the target of the set (minimum x, maximum right edge,
\* mean of the centers, and the vertical analogues) computed from the bounds
\* before the call, with its own width and height.
AlignOnTarget ==
    [][AlignReturned =>
        \A k \in Range(last'.order) :
            /\ OnTarget(nodes, Distinct(last'.order), last'.arg, nodes'[k])
            /\ nodes'[k].width = nodes[k].width
            /\ nodes'[k].height = nodes[k].height]_vars

\* C3 amended: every resolved element sits on the target computed from the bounds
\* before the call over the resolved ids as listed (an id given twice counts twice
\* in the mean), displaced by the shift auto-fit gave to the children of its
\* container; it keeps its width and height, except a resolved Section that
\* auto-fit grew, which sits where its former size is on target.
AlignOnTargetAfterAutoFit ==
    [][AlignReturned =>
        \A k \in Range(last'.order) :
            /\ OnTarget(nodes, last'.order, last'.arg,
                        Unshifted(last'.shifts, nodes'[k], nodes[k]))
            /\ \/ /\ nodes'[k].width = nodes[k].width
                  /\ nodes'[k].height = nodes[k].height
               \/ /\ k \in Range(last'.data.resizedSections)
                  /\ Ge(nodes'[k].width, nodes[k].width)
                  /\ Ge(nodes'[k].height, nodes[k].height)]_vars

\* an alignment has moved children of a section that auto-fit then shifted
AlignedAndShifted ==
    /\ last.op = "align"
    /\ ~last.data.short
    /\ \E k \in Range(last.order) :
          /\ nodes[k].parent # Page
          /\ last.shifts[nodes[k].parent] # ZeroShift

DistributeReturned == last'.op = "distribute" /\ ~last'.data.short /\ history' # history

\* next leading edge minus previous trailing edge
GapBetween(prev, next, direction) ==
    Sub(Lead(next, direction), Add(Lead(prev, direction), Size(prev, direction)))

\* the gaps between the consecutive elements of the list els, as placed in ns
GapsOf(ns, els, direction) ==
    Array([i \in 1..(Len(els) - 1) |-> GapBetween(ns[els[i]], ns[els[i + 1]], direction)])

UnshiftedAll(shifts, after, before) ==
    Array([k \in 1..Len(after) |-> Unshifted(shifts, after[k], before[k])])

\* the index of the last mention of id in the list els
LastIndex(els, id) ==
    CHOOSE i \in DOMAIN els : els[i] = id /\ \A j \in DOMAIN els : els[j] = id => j <= i

\* the sizes of the entries of els before entry i, and one gap after each
OffsetOf(before, els, i, gap, direction) ==
    SumSeq(Array([j \in 1..(i - 1) |-> Add(Size(before[els[j]], direction), gap)]))

DistributesTheExample ==
    /\ nodes = SceneFlat
    /\ last'.op = "distribute"
    /\ last'.ids = <<1, 2, 3>>
    /\ last'.arg = "horizontal"
    /\ last'.spacing = <<Q(60)>>
    /\ last'.success
    /\ history' # history

\* C5 as stated: three elements of width 50 at x = 0, 60 and 500, distributed
\* horizontally with spacing 60, end at x = 0, 110 and 220, 60 apart.
ExampleEndsSixtyApart ==
    [][DistributesTheExample =>
        /\ nodes'[1].x = Q(0)
        /\ nodes'[2].x = Q(110)
        /\ nodes'[3].x = Q(220)
        /\ GapsOf(nodes', <<1, 2, 3>>, "horizontal") = <<Q(60), Q(60)>>]_vars

\* C5 amended: the three elements end at x = 0, 250 and 500, 200 apart: the
\* natural gap ((550 - 0) - 150) / 2 = 200 exceeds the spacing of 60 and is the
\* one applied and returned.
ExampleKeepsNaturalGap ==
    [][DistributesTheExample =>
        /\ nodes'[1].x = Q(0)
        /\ nodes'[2].x = Q(250)
        /\ nodes'[3].x = Q(500)
        /\ GapsOf(nodes', <<1, 2, 3>>, "horizontal") = <<Q(200), Q(200)>>
        /\ last'.data.spacing = <<Q(200)>>]_vars

\* the example has been distributed
ExampleDistributed ==
    /\ history = <<"distribute">>
    /\ last.success
    /\ last.ids = <<1, 2, 3>>
    /\ last.arg = "horizontal"
    /\ last.spacing = <<Q(60)>>
    /\ \A k \in 1..3 : nodes[k].width = Q(50) /\ nodes[k].y = SceneFlat[k].y
    /\ nodes[4] = NoNode
    /\ nodes[1].x = Q(0)
    /\ nodes[3].x = Q(500)

Validated == last.op = "validate"

Elements(ns) == {k \in DOMAIN ns : Exists(ns, k)}

Area(n) == Mul(n.width, n.height)

\* the area the bounding boxes of A and B share
IntersectionArea(A, B) ==
    Mul(MathMax(Q(0), Sub(MathMin(Right(A), Right(B)), MathMax(A.x, B.x))),
        MathMax(Q(0), Sub(MathMin(Bottom(A), Bottom(B)), MathMax(A.y, B.y))))

\* more than 10% of the smaller of the two areas is shared
SharesOverTenth(A, B) ==
    Gt(IntersectionArea(A, B), Mul(Frac(1, 10), MathMin(Area(A), Area(B))))

\* an overlap issue of the list names the pair a, b
PairReported(found, a, b) ==
    \E i \in DOMAIN found :
        found[i].type = "overlap" /\ {found[i].elementId, found[i].ref} = {a, b}

Overlappable(ns, k) == Exists(ns, k) /\ ns[k].type \notin {"CONNECTOR", "SECTION"}

\* no overlap issue names a Section or a Connector
NoContainerOverlaps(ns, found) ==
    \A i \in DOMAIN found :
        found[i].type = "overlap" =>
            Overlappable(ns, found[i].elementId) /\ Overlappable(ns, found[i].ref)

\* C6 as stated: validateLayout reports an overlap for a pair of elements that are
\* neither Connectors nor Sections exactly when their bounding boxes share more
\* than 10% of the smaller one's area, and never for a pair with a Section or a
\* Connector in it.
OverlapIffOverTenth ==
    Validated =>
        /\ \A a, b \in Elements(nodes) :
              a # b /\ Overlappable(nodes, a) /\ Overlappable(nodes, b) =>
                  (PairReported(last.issues, a, b) <=> SharesOverTenth(nodes[a], nodes[b]))
        /\ NoContainerOverlaps(nodes, last.issues)

\* C6 amended: the same, for the pairs of elements that lie directly on the page;
\* a pair with a child of a Section in it is never reported.
OverlapIffOverTenthOnPage ==
    Validated =>
        /\ \A a, b \in Elements(nodes) :
              a # b /\ Overlappable(nodes, a) /\ Overlappable(nodes, b) =>
                  (PairReported(last.issues, a, b) <=>
                      /\ nodes[a].parent = Page
                      /\ nodes[b].parent = Page
                      /\ SharesOverTenth(nodes[a], nodes[b]))
        /\ NoContainerOverlaps(nodes, last.issues)

\* a validation has reported two page-level boxes that share barely more than
\* a tenth of the smaller one
OverlapJustOverTenth ==
    /\ Validated
    /\ \E a, b \in Elements(nodes) :
          /\ PairReported(last.issues, a, b)
          /\ Lt(IntersectionArea(nodes[a], nodes[b]),
                Mul(Frac(11, 100), MathMin(Area(nodes[a]), Area(nodes[b]))))

\* the list s, last entry first
RECURSIVE Reverse(_)
Reverse(s) == IF s = <<>> THEN <<>> ELSE Append(Reverse(Tail(s)), Head(s))

\* the pairs the overlap issues of a list name, as sets
PairsOf(found) ==
    {{found[i].elementId, found[i].ref} : i \in {j \in DOMAIN found : found[j].type = "overlap"}}

\* C7: the overlap area of (A,B) is that of (B,A), the pair loop takes the same
\* decision for (A,B) and (B,A), and a validation reports the same pairs when the
\* elements appear in the scene in the opposite order.
OverlapIsSymmetric ==
    Validated =>
        /\ \A a, b \in Elements(nodes) :
              /\ OverlapArea(nodes[a], nodes[b]) = OverlapArea(nodes[b], nodes[a])
              /\ OverlapReported(nodes[a], nodes[b]) <=> OverlapReported(nodes[b], nodes[a])
        /\ PairsOf(last.issues) = PairsOf(OverlapIssues(nodes, Reverse(Boxes(nodes))))

\* a validation has reported an overlap of two boxes of different areas
OverlapOfUnequalBoxes ==
    /\ Validated
    /\ \E i \in DOMAIN last.issues :
          /\ last.issues[i].type = "overlap"
          /\ Area(nodes[last.issues[i].elementId]) # Area(nodes[last.issues[i].ref])

\* the connectors of the document whose two endpoints resolve
Connected(ns) ==
    {c \in Elements(ns) :
        /\ ns[c].type = "CONNECTOR"
        /\ Exists(ns, ns[c].connectorStart)
        /\ Exists(ns, ns[c].connectorEnd)}

StartOf(ns, c) == ns[ns[c].connectorStart]

EndOf(ns, c) == ns[ns[c].connectorEnd]

\* how far apart two intervals are; negative when they overlap
Apart(lo1, hi1, lo2, hi2) == MathMax(Sub(lo2, hi1), Sub(lo1, hi2))

\* the effective gap of two nodes, <<>> when they overlap on both axes
GapOf(S, E) ==
    LET h == Apart(S.x, Right(S), E.x, Right(E))
        v == Apart(S.y, Bottom(S), E.y, Bottom(E))
    IN  IF Ge(h, Q(0)) /\ Ge(v, Q(0)) THEN <<MathMin(h, v)>>
        ELSE IF Ge(h, Q(0)) THEN <<h>>
        ELSE IF Ge(v, Q(0)) THEN <<v>>
        ELSE <<>>

\* the tight_connector issues of the list for connector c
TightFor(found, c) ==
    SelectSeq(found, LAMBDA i : i.type = "tight_connector" /\ i.elementId = c)

TightExactlyWhenClose(ns, found, c) ==
    LET gap == GapOf(StartOf(ns, c), EndOf(ns, c))
    IN  (TightFor(found, c) # <<>>) <=> (gap # <<>> /\ Lt(gap[1], Q(MIN_CONNECTOR_GAP)))

\* C8 as stated: for every Connector with two resolvable endpoints a
\* tight_connector issue is reported exactly when the effective gap is in
\* [0, 80), and the move it suggests is exactly 80 minus the effective gap.
TightIffCloseExactMove ==
    Validated =>
        \A c \in Connected(nodes) :
            /\ TightExactlyWhenClose(nodes, last.issues, c)
            /\ \A i \in DOMAIN TightFor(last.issues, c) :
                  TightFor(last.issues, c)[i].v2 =
                      Sub(Q(MIN_CONNECTOR_GAP), GapOf(StartOf(nodes, c), EndOf(nodes, c))[1])

\* C8 amended: the issue is reported exactly when the effective gap is in
\* [0, 80), and the move it suggests is 80 minus the effective gap rounded to
\* the nearest integer (Math.round), which is 80 minus the gap when the gap is an
\* integer.
TightIffCloseRoundedMove ==
    Validated =>
        \A c \in Connected(nodes) :
            /\ TightExactlyWhenClose(nodes, last.issues, c)
            /\ \A i \in DOMAIN TightFor(last.issues, c) :
                  LET gap == GapOf(StartOf(nodes, c), EndOf(nodes, c))[1]
                  IN  /\ TightFor(last.issues, c)[i].v2 =
                            Q(MathRound(Sub(Q(MIN_CONNECTOR_GAP), gap)))
                      /\ gap[2] = 1 =>
                            TightFor(last.issues, c)[i].v2 = Sub(Q(MIN_CONNECTOR_GAP), gap)

\* a validation has reported a connector whose gap of 50 asks for a move of 30
TightAtFifty ==
    /\ Validated
    /\ \E c \in Connected(nodes) :
          /\ GapOf(StartOf(nodes, c), EndOf(nodes, c)) = <<Q(50)>>
          /\ TightFor(last.issues, c) # <<>>
          /\ TightFor(last.issues, c)[1].v2 = Q(30)

Center(n) == <<CenterX(n), CenterY(n)>>

\* twice the signed area of the triangle o, a, b
Cross(o, a, b) ==
    Sub(Mul(Sub(a[1], o[1]), Sub(b[2], o[2])), Mul(Sub(a[2], o[2]), Sub(b[1], o[1])))

Sign(r) == IF r[1] > 0 THEN 1 ELSE IF r[1] < 0 THEN -1 ELSE 0

\* c lies in the rectangle spanned by a and b
Within(a, b, c) ==
    /\ Le(MathMin(a[1], b[1]), c[1]) /\ Le(c[1], MathMax(a[1], b[1]))
    /\ Le(MathMin(a[2], b[2]), c[2]) /\ Le(c[2], MathMax(a[2], b[2]))

\* the closed segments p1-p2 and p3-p4 have a point in common
SegmentsMeet(p1, p2, p3, p4) ==
    LET d1 == Sign(Cross(p3, p4, p1))
        d2 == Sign(Cross(p3, p4, p2))
        d3 == Sign(Cross(p1, p2, p3))
        d4 == Sign(Cross(p1, p2, p4))
    IN  \/ d1 * d2 < 0 /\ d3 * d4 < 0
        \/ d1 = 0 /\ Within(p3, p4, p1)
        \/ d2 = 0 /\ Within(p3, p4, p2)
        \/ d3 = 0 /\ Within(p1, p2, p3)
        \/ d4 = 0 /\ Within(p1, p2, p4)

\* the closed segment p-q has a point in the closed bounding box of B
SegmentMeetsBox(p, q, B) ==
    LET nw == <<B.x, B.y>>
        ne == <<Right(B), B.y>>
        sw == <<B.x, Bottom(B)>>
        se == <<Right(B), Bottom(B)>>
    IN  \/ Within(nw, se, p)
        \/ Within(nw, se, q)
        \/ SegmentsMeet(p, q, nw, ne)
        \/ SegmentsMeet(p, q, ne, se)
        \/ SegmentsMeet(p, q, se, sw)
        \/ SegmentsMeet(p, q, sw, nw)

\* a connector_through_shape issue of the list names connector c and element k
ThroughReported(found, c, k) ==
    \E i \in DOMAIN found :
        /\ found[i].type = "connector_through_shape"
        /\ found[i].elementId = c
        /\ found[i].ref = k

\* the elements the claim tests against the path of connector c
Candidates(ns, c) ==
    {k \in Elements(ns) \ {c} :
        /\ ns[k].type \notin {"SECTION", "TEXT"}
        /\ k \notin {ns[c].connectorStart, ns[c].connectorEnd}}

\* C9 as stated: for every Connector with resolvable endpoints and every other
\* element that is no Section, no Text node and none of the two endpoints,
\* connector_through_shape is reported exactly when the segment between the
\* centers of the endpoints has a point in the element's closed bounding box.
ThroughIffSegmentMeets ==
    Validated =>
        \A c \in Connected(nodes) : \A k \in Candidates(nodes, c) :
            ThroughReported(last.issues, c, k) <=>
                SegmentMeetsBox(Center(StartOf(nodes, c)), Center(EndOf(nodes, c)), nodes[k])

GridPoints == {<<Q(x), Q(y)>> : x \in {0, 150, 250}, y \in {0, 100, 300}}

\* C9 amended: the same, for the elements that lie directly on the page and are
\* no Connectors; a child of a Section and a Connector are never reported.  The
\* Liang-Barsky test agrees with segment/rectangle intersection, for segments
\* parallel to an axis and of length zero too (checked for every segment between
\* two grid points against every box of a document validated as it was opened).
ThroughIffSegmentMeetsOnPage ==
    Validated =>
        /\ \A c \in Connected(nodes) : \A k \in Candidates(nodes, c) :
              ThroughReported(last.issues, c, k) <=>
                  /\ nodes[k].parent = Page
                  /\ nodes[k].type # "CONNECTOR"
                  /\ SegmentMeetsBox(Center(StartOf(nodes, c)), Center(EndOf(nodes, c)),
                                     nodes[k])
        /\ Len(history) = 1 =>
              \A p, q \in GridPoints : \A k \in Elements(nodes) :
                  SegmentHitsBox(p[1], p[2], q[1], q[2], nodes[k]) <=>
                      SegmentMeetsBox(p, q, nodes[k])

\* a validation has reported the obstruction at (150,0,100,100) on the path between
\* the centers (50,50) and (250,50), and not the one at (150,300,100,100)
ThroughTheObstruction ==
    /\ Validated
    /\ \E c \in Connected(nodes) : \E k \in Candidates(nodes, c) :
          /\ ThroughReported(last.issues, c, k)
          /\ nodes[k] = [SceneConnector[3] EXCEPT !.y = Q(0)]
          /\ Center(StartOf(nodes, c)) = <<Q(50), Q(50)>>

\* the shape n with the width and height a text_truncated issue suggests
Resized(n, issue) == [n EXCEPT !.width = issue.v1, !.height = issue.v2]

\* C10: a shape that validateLayout reports as text_truncated is not truncated
\* at the suggested width and height with the same text; and when update_element
\* applies the suggestion, a validation of the document has no text_truncated
\* issue for that shape.
SuggestionEndsTruncation ==
    [][/\ last'.op = "validate" =>
            \A i \in DOMAIN last'.issues :
                last'.issues[i].type = "text_truncated" =>
                    /\ Truncated(nodes[last'.issues[i].elementId])
                    /\ ~Truncated(Resized(nodes[last'.issues[i].elementId],
                                           last'.issues[i]))
       /\ last'.applied # <<>> /\ history' # history =>
            LET issue == last'.applied[1]
            IN  /\ last'.success
                /\ nodes'[issue.elementId] = Resized(nodes[issue.elementId], issue)
                /\ \A i \in DOMAIN ValidationIssues(nodes') :
                      ~(/\ ValidationIssues(nodes')[i].type = "text_truncated"
                        /\ ValidationIssues(nodes')[i].elementId = issue.elementId)]_vars

\* a suggestion that widens and heightens a shape has been applied
SuggestionApplied ==
    /\ last.applied # <<>>
    /\ history = <<"validate", "update">>
    /\ nodes[last.applied[1].elementId].height = last.applied[1].v2

\* the text_truncated issues of the report the caller last received
TruncatedIn(issues) ==
    {i \in DOMAIN issues : issues[i].type = "text_truncated"}

\* C11: in every text_truncated issue the suggested width is at least the
\* shape's current width and the suggested height at least its current height.
SuggestionsNeverShrink ==
    Validated =>
        \A i \in TruncatedIn(last.issues) :
            /\ Ge(last.issues[i].v1, nodes[last.issues[i].elementId].width)
            /\ Ge(last.issues[i].v2, nodes[last.issues[i].elementId].height)

\* a shape whose text needs less than the shape's width for two lines is
\* reported with its own width, and another is reported with a larger one
SuggestionKeepsAndWidens ==
    /\ Validated
    /\ \E i \in TruncatedIn(last.issues) :
          /\ last.issues[i].v1 = nodes[last.issues[i].elementId].width
          /\ nodes[last.issues[i].elementId].characters
                > 2 * CharsPerLine(nodes[last.issues[i].elementId])
    /\ \E i \in TruncatedIn(last.issues) :
          /\ Gt(last.issues[i].v1, nodes[last.issues[i].elementId].width)
          /\ Gt(last.issues[i].v2, nodes[last.issues[i].elementId].height)

\* the listed ids that resolve, one entry for each time an id is listed: the
\* elements the returned count counts
Resolved(ns, ids) == Resolve(ns, ids)

\* the call the caller last made was op, and it resolved fewer than least ids
SubMinimum(ns, call, op, least) ==
    call.op = op /\ Len(Resolved(ns, call.ids)) < least

\* C12: alignElements with fewer than 2 resolved elements and
\* distributeElements with fewer than 3 succeed and are no-ops: no element's
\* position or size changes, no section's children are shifted and no section
\* is resized (resolved elements counted as the returned count counts them,
\* once for each listed id that resolves).
SubMinimumIsNoOp ==
    [][SubMinimum(nodes, last', "align", 2) \/ SubMinimum(nodes, last', "distribute", 3) =>
        /\ last'.success
        /\ nodes' = nodes
        /\ last'.shifts = NoShifts(nodes)
        /\ last'.data.resizedSections = <<>>
        /\ last'.data.count = Len(Resolved(nodes, last'.ids))]_vars

\* distributeElements has returned from a call on two children of a section
\* that auto-fit would have resized
SubMinimumLeftSection ==
    /\ SubMinimum(nodes, last, "distribute", 3)
    /\ Len(Resolved(nodes, last.ids)) = 2
    /\ history = <<"distribute">>
    /\ resizeParentSections(nodes, Resolved(nodes, last.ids)).nodes # nodes

\* the listed ids that name no element of the document
Dangling(ns, ids) == {i \in DOMAIN ids : ~(ids[i] \in Elements(ns))}

\* ids without its dangling entries
RECURSIVE Skipping(_, _)
Skipping(ns, ids) ==
    IF ids = <<>> THEN <<>>
    ELSE (IF Head(ids) \in Elements(ns) THEN <<Head(ids)>> ELSE <<>>)
         \o Skipping(ns, Tail(ids))

\* what the same call returns and leaves behind when it is given ids
SameCallWith(ns, call, ids) ==
    IF call.op = "align"
    THEN handleAlignElements(ns, ids, call.arg)
    ELSE handleDistributeElements(ns, ids, call.arg, call.spacing)

\* the documents the same call can leave behind when the canvas throws at one
\* of its writes and it is given ids
SameCallThrowingWith(ns, call, ids) ==
    IF call.op = "align"
    THEN {handleAlignElementsThrowing(ns, ids, call.arg, done).nodes :
            done \in ThrowPoints(ns, ids, AlignedUpTo(ns, ids, call.arg, Len(ids)),
                                 TooFewToAlign(ids))}
    ELSE {handleDistributeElementsThrowing(ns, ids, call.arg, call.spacing, done).nodes :
            done \in ThrowPoints(ns, ids,
                        handleDistributeElementsThrowing(ns, ids, call.arg, call.spacing,
                                                         Len(ids)).nodes,
                        TooFewToDistribute(ids))}

\* C13: an id passed to alignElements or distributeElements that does not
\* resolve to an existing element (never created, or deleted earlier) is
\* skipped without an error: the call succeeds, leaves the document as the
\* same call on the resolved ids alone leaves it, creates no element for the
\* dangling id, and returns as count the number of listed ids that resolve.
\* The dangling id is no cause of failure: a call that fails has failed at a
\* canvas write at which the call on the resolved ids alone fails too.
DanglingIdsAreSkipped ==
    [][IsLayout(last'.op) /\ Dangling(nodes, last'.ids) # {} =>
        /\ \A i \in Dangling(nodes, last'.ids) :
              last'.ids[i] \in DOMAIN nodes => nodes'[last'.ids[i]] = NoNode
        /\ IF last'.success
           THEN /\ nodes' = SameCallWith(nodes, last', Skipping(nodes, last'.ids)).nodes
                /\ last'.data = SameCallWith(nodes, last', Skipping(nodes, last'.ids)).data
                /\ last'.data.count
                      = Len(last'.ids) - Cardinality(Dangling(nodes, last'.ids))
           ELSE nodes' \in SameCallThrowingWith(nodes, last', Skipping(nodes, last'.ids))]_vars

\* a layout call has moved two elements although the first id it was given
\* names an element that was deleted before the call
SkippedADeletedId ==
    /\ history = <<"delete", "align">>
    /\ last.success
    /\ Dangling(nodes, last.ids) = {1}
    /\ last.data.count = 2
    /\ ~last.data.short
    /\ \E S \in Scenes :
          /\ Exists(S, last.ids[1])
          /\ nodes = handleAlignElements(Remove(S, last.ids[1]), last.ids, last.arg).nodes
          /\ nodes # Remove(S, last.ids[1])

\* the connector issues of a report
ConnectorIssues(issues) ==
    {i \in DOMAIN issues :
        issues[i].type \in {"tight_connector", "connector_through_shape"}}

\* one end of connector c names no element of the document
MissingEndpoint(ns, c) ==
    /\ Exists(ns, c)
    /\ ns[c].type = "CONNECTOR"
    /\ \/ ~(ns[c].connectorStart \in Elements(ns))
       \/ ~(ns[c].connectorEnd \in Elements(ns))

\* C14: after an endpoint element of a Connector has been deleted,
\* validateLayout still succeeds and reports neither tight_connector nor
\* connector_through_shape for that connector: every connector such an issue
\* names is in the document with both its endpoint elements.
MissingEndpointIsSkipped ==
    Validated =>
        /\ last.success
        /\ \A i \in ConnectorIssues(last.issues) :
              /\ Exists(nodes, last.issues[i].elementId)
              /\ ~MissingEndpoint(nodes, last.issues[i].elementId)

\* a connector that was reported as running through a shape has lost an
\* endpoint element, and the validation after that reports nothing for it
ValidatedAfterEndpointDeleted ==
    /\ history = <<"delete", "validate">>
    /\ \E c \in DOMAIN nodes :
          /\ MissingEndpoint(nodes, c)
          /\ nodes[c].connectorStart # 0
          /\ \E S \in Scenes :
                /\ c \in DOMAIN S
                /\ Exists(S, S[c].connectorStart)
                /\ nodes = Remove(S, S[c].connectorStart)
                /\ \E i \in ConnectorIssues(ValidationIssues(S)) :
                      ValidationIssues(S)[i].elementId = c

\* a layout call has returned a failure to the caller
LayoutFailed(call) == IsLayout(call.op) /\ ~call.success

\* C15: an alignElements or distributeElements call that fails at a later step
\* reports a failure and leaves the document as it was before the call: no
\* state is reached in which the caller has received a failure while some of
\* the repositioning of that call is applied.
FailureLeavesSceneIntact ==
    [][LayoutFailed(last') /\ history' # history => nodes' = nodes]_vars

\* ------------------------------------------------------------------------
\* The bridge: claims
\* ------------------------------------------------------------------------

\* a plugin socket is set and open
PluginIsOpen == pluginSocket # 0 /\ readyState[pluginSocket] = "OPEN"

\* this step is a sendCommand call
Sending == Len(commands') = Len(commands) + 1

\* the call a sendCommand step has added
Sent == commands'[Len(commands')]

\* the calls that are in the pending map
PendingCalls == {pendingCommands[id] : id \in PendingIds(pendingCommands)}

\* C16: sendCommand called while no plugin socket is connected resolves with
\* success = false and an error saying the plugin is not connected, sends
\* nothing and adds no entry to the pending-command map.
SendWithoutPluginFails ==
    [][Sending /\ ~PluginIsOpen =>
        /\ Sent.settled
        /\ ~Sent.response.success
        /\ Sent.response.error = NOT_CONNECTED
        /\ Sent.timer = NoTimer
        /\ sent' = sent
        /\ pendingCommands' = pendingCommands]_bridgeVars

\* a command was refused while the plugin socket was set but closing, with
\* an earlier command still pending
RefusedWhileClosing ==
    /\ pluginSocket # 0
    /\ readyState[pluginSocket] = "CLOSING"
    /\ Len(commands) = 2
    /\ ~commands[1].settled
    /\ PendingCalls = {1}
    /\ commands[2].response.error = NOT_CONNECTED
    /\ Len(sent) = 1

\* this step is the 'close' of the plugin socket
PluginSocketCloses ==
    /\ pluginSocket # 0
    /\ readyState[pluginSocket] # "CLOSED"
    /\ readyState'[pluginSocket] = "CLOSED"

\* C17: when the plugin socket (the socket held in pluginSocket) closes, every
\* command pending at that moment
\* is resolved with success = false, the pending-command map becomes empty,
\* and isPluginConnected() is false afterwards, as is pluginConnected of
\* /health.
DisconnectRejectsPending ==
    [][PluginSocketCloses =>
        /\ \A c \in PendingCalls :
              /\ commands'[c].settled
              /\ ~commands'[c].response.success
              /\ commands'[c].timer = NoTimer
        /\ PendingIds(pendingCommands') = {}
        /\ pluginSocket' = 0
        /\ ~Health(pluginSocket', readyState', pendingCommands').pluginConnected
        /\ Health(pluginSocket', readyState', pendingCommands').pendingCommands = 0]_bridgeVars

\* the plugin socket has closed with two commands pending, and both were
\* resolved with the disconnect failure
TwoRejectedByDisconnect ==
    /\ pluginSocket = 0
    /\ Len(commands) = 2
    /\ \A c \in DOMAIN commands :
          commands[c].settled /\ commands[c].response.error = "Plugin disconnected"
    /\ PendingIds(pendingCommands) = {}

\* this step sets the timer of a new command
Arming == Sending /\ ~Sent.settled

\* this step is the timer callback of call c
TimingOut(c) ==
    /\ c \in DOMAIN commands
    /\ ~commands[c].settled
    /\ commands'[c].settled
    /\ commands'[c].response.error = "Command timed out"

\* C18: every command sent with sendCommand is eventually resolved; the timer
\* of a command is set to the command timeout of 15 seconds, and when it
\* fires, no response, disconnect or shutdown having come first, the command
\* is removed from the pending map and its promise resolves with success =
\* false and a timed-out error carrying the command's id.
EveryCommandResolves ==
    /\ \A c \in 1..MaxCommands :
          (Len(commands) >= c) ~> (Len(commands) >= c /\ commands[c].settled)
    /\ [][/\ Arming => Sent.timer = 15000 /\ pendingCommands'[Sent.id] = Len(commands')
          /\ \A c \in 1..MaxCommands : TimingOut(c) =>
                /\ commands[c].timer = 0
                /\ pendingCommands[commands[c].id] = c
                /\ pendingCommands'[commands[c].id] = 0
                /\ ~commands'[c].response.success
                /\ commands'[c].response.id = commands[c].id
                /\ commands'[c].timer = NoTimer]_bridgeVars

\* a command has timed out while the plugin stayed connected and a later
\* command is still pending
TimedOutWhileConnected ==
    /\ PluginIsOpen
    /\ Len(commands) = 2
    /\ commands[1].response.error = "Command timed out"
    /\ ~commands[2].settled
    /\ PendingCalls = {2}

\* handlePluginResponse settles call c of the pending map with this response
\* and leaves every other call and entry as it was
SettlesOnly(r, c, response) ==
    /\ r.commands[c].settled
    /\ r.commands[c].response = response
    /\ r.commands[c].timer = NoTimer
    /\ \A other \in DOMAIN commands : other # c => r.commands[other] = commands[other]
    /\ r.pendingCommands = [pendingCommands EXCEPT ![response.id] = 0]

\* C19: responses are matched to commands by id: a command is resolved with
\* the plugin response that carries its id, never with the response to
\* another pending command, so that every resolved promise holds the id of
\* its own command; and a response whose id matches no pending command
\* changes neither the pending map nor any promise.
ResponsesMatchById ==
    /\ \A c \in DOMAIN commands :
          commands[c].settled => commands[c].response.id = commands[c].id
    /\ \A id \in PendingIds(pendingCommands) :
          /\ pendingCommands[id] \in DOMAIN commands
          /\ commands[pendingCommands[id]].id = id
          /\ ~commands[pendingCommands[id]].settled
    /\ \A m \in Messages :
          LET r == handlePluginResponse(commands, pendingCommands, m.response)
          IN  m.parses =>
                IF m.response.id \in PendingIds(pendingCommands)
                THEN SettlesOnly(r, pendingCommands[m.response.id], m.response)
                ELSE r.commands = commands /\ r.pendingCommands = pendingCommands

\* the plugin has answered the second of two pending commands first, and
\* the first is still waiting
AnsweredOutOfOrder ==
    /\ Len(commands) = 2
    /\ ~commands[1].settled
    /\ PendingCalls = {1}
    /\ commands[2].settled
    /\ commands[2].response.success
    /\ commands[2].response.id = commands[2].id

\* this step is a waitForConnection call
Waiting == Len(waits') = Len(waits) + 1

\* this step settles the promise of wait w
Settling(w) == w \in DOMAIN waits /\ ~waits[w].settled /\ waits'[w].settled

\* C20: waitForConnection always resolves: with true at once when the plugin
\* is already connected, with true when a round of its interval sees the
\* plugin connected, with false once a round finds the deadline passed and
\* no plugin connected; it is not resolved before that, and once it is
\* resolved its interval is cleared.
WaitAlwaysResolves ==
    /\ \A w \in 1..MaxWaits :
          (Len(waits) >= w) ~> (Len(waits) >= w /\ waits[w].settled)
    /\ [][/\ Waiting =>
                LET w == waits'[Len(waits')]
                IN  IF PluginIsOpen
                    THEN w.settled /\ w.value /\ ~w.polling
                    ELSE ~w.settled /\ w.polling
          /\ \A w \in 1..MaxWaits : Settling(w) =>
                /\ waits[w].polling
                /\ waits[w].next = 0
                /\ waits'[w].value = PluginIsOpen
                /\ ~PluginIsOpen => waits[w].deadline <= 0
          /\ \A w \in DOMAIN waits :
                /\ waits[w].settled => waits'[w] = waits[w]
                /\ waits[w].polling /\ waits[w].next = 0 /\ waits'[w] # waits[w]
                     /\ ~PluginIsOpen /\ waits[w].deadline > 0 => ~waits'[w].settled]_bridgeVars
    /\ [](\A w \in DOMAIN waits : waits[w].settled <=> ~waits[w].polling)

\* one wait has resolved with true at a round before its deadline, the
\* plugin having connected while it waited, and another with false
WaitedBothWays ==
    /\ Len(waits) = 2
    /\ \E w \in DOMAIN waits :
          waits[w].settled /\ waits[w].value /\ waits[w].deadline > 0
    /\ \E w \in DOMAIN waits :
          waits[w].settled /\ ~waits[w].value

\* ------------------------------------------------------------------------
\* batch_create
\* ------------------------------------------------------------------------

\* the specs whose round of the loop is over
Attempted == 1..(batch.next - 1)

\* the connectors among them whose command went out to the plugin
WiredOut == {i \in Attempted : /\ batch.specs[i].type = "connector"
                               /\ batch.requests[i].command # ""}

\* the elements created before spec i whose refId is the given key
CreatedEarlier(i, key) ==
    {j \in 1..(i - 1) : /\ batch.recorded[j] # 0
                        /\ key # <<>>
                        /\ batch.specs[j].refId = key}

\* the last of them, for a refId that is not the empty string; 0 for none
LastNamed(i, key) ==
    LET named == IF key # <<>> /\ key[1] # 0 THEN CreatedEarlier(i, key) ELSE {}
    IN  IF named = {} THEN 0 ELSE CHOOSE j \in named : \A k \in named : k <= j

RECURSIVE Ascending(_)
Ascending(ids) ==
    Len(ids) < 2 \/ (ids[1] < ids[2] /\ Ascending(Tail(ids)))

\* one element at a time, in array order; count, errors and isError
BatchKeepsBooks ==
    /\ Len(batch.requests) = batch.next - 1
    /\ \A i \in Attempted :
          batch.requests[i].command \in {"", "create_" \o batch.specs[i].type}
    /\ Array([k \in 1..Len(batch.results) |-> batch.results[k].id])
          = SelectSeq(batch.recorded, LAMBDA id : id # 0)
    /\ Ascending(SelectSeq(batch.recorded, LAMBDA id : id # 0))
    /\ \A k \in DOMAIN batch.results : Exists(nodes, batch.results[k].id)
    /\ Len(batch.results) + Len(batch.errors) = batch.next - 1
    /\ batch.output # <<>> =>
          /\ batch.next = Len(batch.specs) + 1
          /\ batch.output[1].created = batch.results
          /\ batch.output[1].count = Len(batch.output[1].created)
          /\ batch.output[1].errors = batch.errors
          /\ batch.output[1].isError => Len(batch.output[1].created) = 0

\* C21 as stated: batch_create creates the elements one at a time in array
\* order; a connector whose startElementId or endElementId equals the refId of
\* an element created earlier in the batch goes to the plugin with that
\* element's real id, whichever element of that refId it is; count is the
\* number of entries of created, a failed element is recorded in errors and
\* the loop goes on, and isError is set only when nothing was created.
BatchWiresEveryRef ==
    batch # NoBatch =>
        /\ BatchKeepsBooks
        /\ \A i \in WiredOut :
              /\ \A j \in CreatedEarlier(i, batch.specs[i].startElementId) :
                    batch.requests[i].startElementId = batch.recorded[j]
              /\ \A j \in CreatedEarlier(i, batch.specs[i].endElementId) :
                    batch.requests[i].endElementId = batch.recorded[j]

\* C21, amended: the same, the connector going to the plugin with the real id
\* of the last element created earlier in the batch under that refId, for a
\* refId that is not the empty string.
BatchWiresLastRef ==
    batch # NoBatch =>
        /\ BatchKeepsBooks
        /\ \A i \in WiredOut :
              LET s == LastNamed(i, batch.specs[i].startElementId)
                  e == LastNamed(i, batch.specs[i].endElementId)
              IN  /\ s # 0 => batch.requests[i].startElementId = batch.recorded[s]
                  /\ e # 0 => batch.requests[i].endElementId = batch.recorded[e]

\* a returned batch in which one element failed and a connector was created
\* from an element of the batch named by its refId
BatchWiredAndFailed ==
    /\ batch.output # <<>>
    /\ batch.output[1].errors # <<>>
    /\ ~batch.output[1].isError
    /\ \E i \in WiredOut :
          /\ batch.recorded[i] # 0
          /\ LastNamed(i, batch.specs[i].startElementId) # 0
          /\ nodes[batch.recorded[i]].connectorStart
                = batch.recorded[LastNamed(i, batch.specs[i].startElementId)]

\* ------------------------------------------------------------------------
\* Auto-fit and the structural bleed pass
\* ------------------------------------------------------------------------

\* an alignElements or distributeElements call that moved its elements returns
LayoutCompleted == (AlignReturned \/ DistributeReturned) /\ last'.success

\* the Sections that own one of the elements a call named
Touched(ns, ids) ==
    {ns[k].parent : k \in {id \in Range(ids) : Exists(ns, id)}} \cap Sections(ns)

\* every child behind the padding, and the section reaching 40 past them
Enclosed(ns, s) ==
    \A c \in Range(Children(ns, s)) :
        /\ Ge(ns[c].x, Q(SECTION_PADDING))
        /\ Ge(ns[c].y, Q(SECTION_PADDING))
        /\ Ge(ns[s].width, Add(Right(ns[c]), Q(SECTION_PADDING)))
        /\ Ge(ns[s].height, Add(Bottom(ns[c]), Q(SECTION_PADDING)))

\* the section_bleed issues of pass (a) that validateLayout reports for the
\* children of s
StructuralBleedsOf(ns, s) ==
    SelectSeq(handleValidateLayout(ns).issues,
              LAMBDA issue : /\ issue.type = "section_bleed"
                             /\ issue.dir = "a"
                             /\ issue.ref = s)

\* C22: once alignElements or distributeElements has moved a child of a
\* Section and returned, every child of that section has x >= 40 and y >= 40
\* in the section's coordinates, the section is at least 40 wider than its
\* largest child right edge and 40 higher than its largest child bottom edge,
\* and a validateLayout that follows at once reports no structural
\* section_bleed for a child of that section.
AutoFitEnclosesChildren ==
    [][LayoutCompleted =>
        \A s \in Touched(nodes', last'.ids) :
            /\ Enclosed(nodes', s)
            /\ StructuralBleedsOf(nodes', s) = <<>>]_vars

\* ------------------------------------------------------------------------
\* The scene snapshot and the coordinate frames
\* ------------------------------------------------------------------------

\* where the origin of container p lies on the page
RECURSIVE OriginOf(_, _, _)
OriginOf(ns, p, depth) ==
    IF p = Page \/ depth = 0 THEN <<Q(0), Q(0)>>
    ELSE LET o == OriginOf(ns, ns[p].parent, depth - 1)
         IN  <<Add(o[1], ns[p].x), Add(o[2], ns[p].y)>>

\* node k with its bounds in the page frame
Absolute(ns, k) ==
    LET o == OriginOf(ns, ns[k].parent, Len(ns))
    IN  [ns[k] EXCEPT !.x = Add(@, o[1]), !.y = Add(@, o[2])]

InSection(ns, k) == Exists(ns, k) /\ ns[k].parent # Page

TruncationReported(found, k) ==
    \E i \in DOMAIN found : found[i].type = "text_truncated" /\ found[i].elementId = k

\* an issue of one of the three snapshot checks names element k
SnapshotIssueNames(found, k) ==
    \E i \in DOMAIN found :
        \/ found[i].type = "text_truncated" /\ found[i].elementId = k
        \/ found[i].type = "overlap" /\ k \in {found[i].elementId, found[i].ref}
        \/ found[i].type = "connector_through_shape" /\ found[i].ref = k

\* C23 as stated: the snapshot of validateLayout holds the children of each
\* Section too: a Shape that is a child of a Section is checked for text
\* truncation, two children of a Section are checked for overlap, and a child
\* of a Section is tested against the connector paths, as top-level elements
\* are.
SnapshotHoldsSectionChildren ==
    Validated =>
        \A k \in Elements(nodes) :
            InSection(nodes, k) =>
                /\ nodes[k].type = "SHAPE_WITH_TEXT" =>
                      (TruncationReported(last.issues, k) <=> Truncated(nodes[k]))
                /\ \A b \in Elements(nodes) \ {k} :
                      /\ InSection(nodes, b)
                      /\ Overlappable(nodes, k)
                      /\ Overlappable(nodes, b)
                      => (PairReported(last.issues, k, b) <=>
                             SharesOverTenth(Absolute(nodes, k), Absolute(nodes, b)))
                /\ \A c \in Connected(nodes) :
                      k \in Candidates(nodes, c) /\ nodes[k].type # "CONNECTOR" =>
                          (ThroughReported(last.issues, c, k) <=>
                              SegmentMeetsBox(Center(Absolute(nodes, nodes[c].connectorStart)),
                                              Center(Absolute(nodes, nodes[c].connectorEnd)),
                                              Absolute(nodes, k)))

\* C23, amended: the snapshot holds the direct children of the page only.  A
\* Shape directly on the page is reported as truncated exactly when its text
\* does not fit; a child of a Section is never reported as truncated, never
\* part of a reported overlap and never reported as lying on a connector path.
SnapshotHoldsPageChildrenOnly ==
    Validated =>
        \A k \in Elements(nodes) :
            /\ nodes[k].parent = Page /\ nodes[k].type = "SHAPE_WITH_TEXT" =>
                  (TruncationReported(last.issues, k) <=> Truncated(nodes[k]))
            /\ InSection(nodes, k) => ~SnapshotIssueNames(last.issues, k)

\* a validation of a document in which a child of a Section carries text that
\* does not fit and lies over another child of that Section, and no issue
\* names it
SectionChildrenGoUnchecked ==
    /\ Validated
    /\ \E k, b \in Elements(nodes) :
          /\ k # b
          /\ InSection(nodes, k)
          /\ nodes[b].parent = nodes[k].parent
          /\ Truncated(nodes[k])
          /\ SharesOverTenth(nodes[k], nodes[b])
          /\ ~SnapshotIssueNames(last.issues, k)

\* the connectors whose two endpoints have different containers
CrossFrame(ns) ==
    {c \in Connected(ns) : ns[ns[c].connectorStart].parent # ns[ns[c].connectorEnd].parent}

\* C24: the connector gap and connector path checks work on page-frame bounds.
\* For a connector whose endpoints have different containers, tight_connector
\* is reported, with its gap, as the endpoints' positions on the page give it,
\* and the segment tested against an element of the page runs between the
\* endpoints' centers on the page.
ConnectorChecksUsePageFrame ==
    Validated =>
        \A c \in CrossFrame(nodes) :
            LET S   == Absolute(nodes, nodes[c].connectorStart)
                E   == Absolute(nodes, nodes[c].connectorEnd)
                gap == GapOf(S, E)
            IN  /\ (TightFor(last.issues, c) # <<>>) <=>
                       (gap # <<>> /\ Lt(gap[1], Q(MIN_CONNECTOR_GAP)))
                /\ TightFor(last.issues, c) # <<>> =>
                       TightFor(last.issues, c)[1].v1 = Q(MathRound(gap[1]))
                /\ \A k \in Candidates(nodes, c) :
                       nodes[k].parent = Page /\ nodes[k].type # "CONNECTOR" =>
                           (ThroughReported(last.issues, c, k) <=>
                               SegmentMeetsBox(Center(S), Center(E), nodes[k]))

\* ------------------------------------------------------------------------
\* Section bleed
\* ------------------------------------------------------------------------

\* the section_bleed issues of one pass that name element k and section s
BleedsReported(found, pass, k, s) ==
    SelectSeq(found, LAMBDA issue : /\ issue.type = "section_bleed"
                                    /\ issue.dir = pass
                                    /\ issue.elementId = k
                                    /\ issue.ref = s)

\* the edges of rectangle R that box C reaches past, each with its overflow,
\* in the order left, right, top, bottom; R is <<left, right, top, bottom>>
Overflows(C, R) ==
    (IF Lt(C.x, R[1]) THEN <<<<"left", Sub(R[1], C.x)>>>> ELSE <<>>)
    \o (IF Gt(Right(C), R[2]) THEN <<<<"right", Sub(Right(C), R[2])>>>> ELSE <<>>)
    \o (IF Lt(C.y, R[3]) THEN <<<<"top", Sub(R[3], C.y)>>>> ELSE <<>>)
    \o (IF Gt(Bottom(C), R[4]) THEN <<<<"bottom", Sub(Bottom(C), R[4])>>>> ELSE <<>>)

\* the overflows as an issue prints them
Exactly(overflows) ==
    Array([i \in 1..Len(overflows) |-> <<overflows[i][1], overflows[i][2]>>])

Rounded(overflows) ==
    Array([i \in 1..Len(overflows) |-> <<overflows[i][1], MathRound(overflows[i][2])>>])

\* what an issue states, each amount as a number
Stated(issue) ==
    Array([i \in 1..Len(issue.bleeds) |-> <<issue.bleeds[i][1], Q(issue.bleeds[i][2])>>])

\* the part of a section that its children may take, in its own coordinates
Interior(sec) == <<Q(0), sec.width, Q(SECTION_PADDING), sec.height>>

\* the elements whose container is a Section, with that Section
Contained(ns) ==
    {<<k, ns[k].parent>> : k \in {e \in Elements(ns) : e # 0 /\ ns[e].parent \in Sections(ns)}}

\* C25 as stated: for every element whose container is a Section the
\* structural pass reports section_bleed exactly when, in the section's
\* coordinates, x < 0 or x + width > sectionWidth or y < 40 or
\* y + height > sectionHeight, and the issue states the exact overflow of each
\* violated edge.
StructuralBleedIffOutside ==
    Validated =>
        \A pair \in Contained(nodes) :
            LET over  == Overflows(nodes[pair[1]], Interior(nodes[pair[2]]))
                found == BleedsReported(last.issues, "a", pair[1], pair[2])
            IN  /\ (found # <<>>) <=> (over # <<>>)
                /\ found # <<>> => Len(found) = 1 /\ Stated(found[1]) = Exactly(over)

\* C25, amended: the same for the elements, Connectors left out, whose
\* container is a Section that lies directly on the page, each overflow
\* printed rounded to the nearest integer; a Connector and a child of a
\* Section that lies in another Section are never reported by this pass.
StructuralBleedIffOutsideOnPage ==
    Validated =>
        \A pair \in Contained(nodes) :
            LET over  == Overflows(nodes[pair[1]], Interior(nodes[pair[2]]))
                found == BleedsReported(last.issues, "a", pair[1], pair[2])
            IN  /\ (found # <<>>) <=>
                       /\ over # <<>>
                       /\ nodes[pair[1]].type # "CONNECTOR"
                       /\ nodes[pair[2]].parent = Page
                /\ found # <<>> =>
                       /\ Len(found) = 1
                       /\ found[1].bleeds = Rounded(over)
                       /\ (\A i \in DOMAIN over : over[i][2][2] = 1) =>
                             Stated(found[1]) = Exactly(over)

\* a validation has reported a child that reaches past its section by a
\* number of pixels that is no integer
BledByHalfAPixel ==
    /\ Validated
    /\ \E pair \in Contained(nodes) :
          /\ BleedsReported(last.issues, "a", pair[1], pair[2]) # <<>>
          /\ \E i \in DOMAIN Overflows(nodes[pair[1]], Interior(nodes[pair[2]])) :
                Overflows(nodes[pair[1]], Interior(nodes[pair[2]]))[i][2][2] # 1

\* the center of box C lies inside rectangle R, its border apart
CenterWithin(C, R) ==
    /\ Gt(CenterX(C), R.x) /\ Lt(CenterX(C), Right(R))
    /\ Gt(CenterY(C), R.y) /\ Lt(CenterY(C), Bottom(R))

\* rectangle R drawn in by 10 on the left, right and bottom, by 40 on top
Inset(R) ==
    <<Add(R.x, Q(VISUAL_INSET)), Sub(Right(R), Q(VISUAL_INSET)),
      Add(R.y, Q(SECTION_PADDING)), Sub(Bottom(R), Q(VISUAL_INSET))>>

\* C26 as stated: for every element that is no Section, of any container, whose
\* center on the page falls within the rectangle of a Section on the page, the
\* visual pass reports section_bleed exactly when the element reaches past
\* that rectangle drawn in by 10 on the left, right and bottom and by 40 on
\* top, with the overflows measured against the drawn-in edges.
VisualBleedIffPastInset ==
    Validated =>
        \A s \in Sections(nodes) : \A k \in Elements(nodes) \ {s} :
            LET C     == Absolute(nodes, k)
                R     == Absolute(nodes, s)
                over  == Overflows(C, Inset(R))
                found == BleedsReported(last.issues, "b", k, s)
            IN  nodes[k].type # "SECTION" /\ CenterWithin(C, R) =>
                    /\ (found # <<>>) <=> (over # <<>>)
                    /\ found # <<>> => Len(found) = 1 /\ Stated(found[1]) = Exactly(over)

\* C26, amended: the same for the elements that lie directly on the page and
\* are neither Sections nor Connectors, against the Sections that lie directly
\* on the page, each overflow printed rounded to the nearest integer; no other
\* element and no other Section is named by an issue of this pass.
VisualBleedIffPastInsetOnPage ==
    Validated =>
        \A s \in Sections(nodes) : \A k \in Elements(nodes) \ {s} :
            LET over  == Overflows(nodes[k], Inset(nodes[s]))
                found == BleedsReported(last.issues, "b", k, s)
            IN  /\ (found # <<>>) <=>
                       /\ nodes[k].parent = Page
                       /\ nodes[s].parent = Page
                       /\ nodes[k].type \notin {"SECTION", "CONNECTOR"}
                       /\ CenterWithin(nodes[k], nodes[s])
                       /\ over # <<>>
                /\ found # <<>> =>
                       /\ Len(found) = 1
                       /\ found[1].bleeds = Rounded(over)
                       /\ (\A i \in DOMAIN over : over[i][2][2] = 1) =>
                             Stated(found[1]) = Exactly(over)

\* a validation has reported an element of the page that reaches half a pixel
\* less than 30 past the drawn-in left edge of a Section around its center
VisualBleedByHalfAPixel ==
    /\ Validated
    /\ \E s \in Sections(nodes) : \E k \in Elements(nodes) \ {s} :
          /\ BleedsReported(last.issues, "b", k, s) # <<>>
          /\ Overflows(nodes[k], Inset(nodes[s])) = <<<<"left", Frac(59, 2)>>>>

\* element k is a child of Section s on the page, and both passes have
\* something to report of it: it reaches out of the section's interior, and
\* on the page its center lies in the section's rectangle while it reaches
\* past the drawn-in rectangle
BothPassesApply(ns, k, s) ==
    /\ ns[k].parent = s
    /\ ns[s].parent = Page
    /\ ns[k].type \notin {"SECTION", "CONNECTOR"}
    /\ Overflows(ns[k], Interior(ns[s])) # <<>>
    /\ CenterWithin(Absolute(ns, k), ns[s])
    /\ Overflows(Absolute(ns, k), Inset(ns[s])) # <<>>

\* C27 as stated: the structural and the visual pass both fire for the same
\* element: where both have something to report of an element and a Section,
\* one validateLayout call holds two section_bleed issues for that element and
\* that Section, one of pass (a) and one of pass (b).
BothBleedPassesFire ==
    Validated =>
        \A s \in Sections(nodes) : \A k \in Elements(nodes) \ {s} :
            BothPassesApply(nodes, k, s) =>
                /\ BleedsReported(last.issues, "a", k, s) # <<>>
                /\ BleedsReported(last.issues, "b", k, s) # <<>>

\* C27, amended: the two passes never both fire for the same element and the
\* same Section.  Pass (a) names children of the Section only and pass (b)
\* direct children of the page only, so one validateLayout call holds at most
\* one section_bleed issue for an element and a Section.
BleedPassesNeverBothFire ==
    Validated =>
        \A s \in Sections(nodes) : \A k \in Elements(nodes) \ {s} :
            /\ Len(BleedsReported(last.issues, "a", k, s))
                  + Len(BleedsReported(last.issues, "b", k, s)) <= 1
            /\ BleedsReported(last.issues, "a", k, s) # <<>> => nodes[k].parent = s
            /\ BleedsReported(last.issues, "b", k, s) # <<>> => nodes[k].parent = Page

\* a validation of a document in which both passes have something to report
\* of a child of a Section, and pass (a) alone has reported it
BledInBothFrames ==
    /\ Validated
    /\ \E s \in Sections(nodes) : \E k \in Elements(nodes) \ {s} :
          /\ BothPassesApply(nodes, k, s)
          /\ Len(BleedsReported(last.issues, "a", k, s)) = 1
          /\ BleedsReported(last.issues, "b", k, s) = <<>>

\* ------------------------------------------------------------------------
\* Commands in flight
\* ------------------------------------------------------------------------

\* the commands of the three tools that were written to a socket and whose
\* calls are not resolved yet
InFlight ==
    {i \in DOMAIN sent : /\ sent[i].type \in LayoutTools
                         /\ pendingCommands[sent[i].id] # 0}

\* the ids of the calls that found the plugin connected, in call order
Relayed ==
    LET calls == SelectSeq(commands, LAMBDA call : call.id # 0)
    IN  Array([c \in 1..Len(calls) |-> calls[c].id])

\* C28 as stated: at most one validate_layout, align_elements or
\* distribute_elements command is in flight at any time: BridgeServer never
\* has two of them pending at once.
AtMostOneInFlight == Cardinality(InFlight) <= 1

\* C28, amended: BridgeServer holds back no command.  Every call of the three
\* tools that finds the plugin connected is written to the plugin socket
\* during the call, so the commands go out in the order of the calls, and
\* every such call that is not resolved yet is pending, however many there are.
CommandsGoOutInCallOrder ==
    /\ Array([i \in 1..Len(sent) |-> sent[i].id]) = Relayed
    /\ PendingIds(pendingCommands)
          = {commands[c].id : c \in {d \in DOMAIN commands : ~commands[d].settled}}

\* an align_elements and a validate_layout command are pending at once
TwoLayoutCommandsInFlight ==
    \E i, j \in InFlight :
        sent[i].type = "align_elements" /\ sent[j].type = "validate_layout"

\* ------------------------------------------------------------------------
\* Promises settle once
\* ------------------------------------------------------------------------

\* call c is resolved and done with: resolve was called once, its timer is
\* cleared or spent, and its id is not in the pending map
Done(c) ==
    /\ commands[c].settled
    /\ commands[c].resolves = 1
    /\ commands[c].timer = NoTimer
    /\ commands[c].id \notin PendingIds(pendingCommands)

\* C29: every promise returned by sendCommand is resolved exactly once under
\* any interleaving of plugin response, timer expiry, socket close and
\* stop(): resolve is called on it at some time and never twice; a resolved
\* command is not in the pending map and its timer is cleared or spent; and
\* no later response, close, timeout or stop changes a resolved promise.
ResolvedExactlyOnce ==
    /\ [](\A c \in DOMAIN commands :
            IF commands[c].settled THEN Done(c) ELSE commands[c].resolves = 0)
    /\ [][\A c \in DOMAIN commands :
            commands[c].settled => commands'[c] = commands[c]]_bridgeVars
    /\ \A c \in 1..MaxCommands :
          (Len(commands) >= c) ~> (Len(commands) >= c /\ commands[c].resolves = 1)

\* the first command timed out, the second was answered by the plugin, and
\* the socket closed and the server stopped afterwards: each promise still
\* holds its first resolution, and resolve was called once on each
ResolvedBeforeCloseAndStop ==
    /\ Len(commands) = 2
    /\ commands[1].response.error = "Command timed out"
    /\ commands[2].response.success
    /\ \A c \in DOMAIN commands : commands[c].resolves = 1
    /\ readyState[1] = "CLOSED"
    /\ stopped

\* ------------------------------------------------------------------------
\* A superseded socket closes
\* ------------------------------------------------------------------------

\* this step is the 'close' of socket ws, open until now, which a newer
\* socket has superseded as the plugin socket
SupersededCloses(ws) ==
    /\ pluginSocket # 0
    /\ pluginSocket # ws
    /\ readyState[ws] = "OPEN"
    /\ readyState'[ws] = "CLOSED"

\* the calls whose commands were written to socket ws and are still pending
PendingOn(ws) ==
    {pendingCommands[sent[i].id] :
        i \in {j \in DOMAIN sent : /\ sent[j].socket = ws
                                   /\ pendingCommands[sent[j].id] # 0}}

\* C30: when a second plugin socket has connected while an earlier one was
\* still open, the later close of the earlier socket does not disturb the
\* current session: pluginSocket keeps pointing at the newer socket, and no
\* command that was sent to the newer socket and is still pending is resolved
\* with 'Plugin disconnected'.
SupersededCloseLeavesSession ==
    [][\A ws \in Sockets : SupersededCloses(ws) =>
          /\ pluginSocket' = pluginSocket
          /\ \A c \in PendingOn(pluginSocket) :
                ~(/\ commands'[c].settled
                  /\ commands'[c].response.error = "Plugin disconnected")]_bridgeVars

====
